---- MODULE Spec2Model ----
(***************************************************************************)
(* A model of the Tetris game of my-work/tetris-game (Tetromino,           *)
(* GameBoard, GameState, InputHandler, GameEngine).  A JavaScript class    *)
(* that defines a method twice keeps the later definition, so the engine   *)
(* methods modelled here are the later ones (reset, gameLoop, moveLeft,    *)
(* moveRight, rotate, softDrop, dropPiece, placePiece, spawnNextPiece).    *)
(***************************************************************************)
EXTENDS Integers, Sequences, FiniteSets, TLC

(***************************************************************************)
(* Bounds of the model.                                                    *)
(***************************************************************************)
\* width and height of the engine's board (new GameBoard(width, height))
W == 4
H == 4
\* width and height of the boards clearLines() is called on directly
TestW == 2
TestH == 5
\* width and height of the board of the game that is played to the end
PlayW == 4
PlayH == 13
\* pieces locked in the game that is played to the end
MaxPlayPieces == 11
\* the game in which pieces of several types follow each other: its board,
\* the number of piece types createRandomTetromino draws from, and the pieces locked
SpawnW == 4
SpawnH == 4
NumSpawnTypes == 3
MaxSpawnPieces == 2
\* the example game: BOARD_WIDTH and BOARD_HEIGHT, the number of piece types
\* createRandomPiece draws from, the frame callbacks pending at once, and the
\* score up to which the game is followed
ExW == 4
ExH == 4
NumExTypes == 2
MaxExLoops == 2
MaxExScore == 200
\* the line total up to which a GameState is followed when its drop speed is read
MaxSpeedLines == 320
\* the rotations: how often a piece or a matrix is turned in a row, and the
\* number of filled cells of the 0/1 matrices rotateMatrix is given
MaxTurns == 4
MaxFilled == 1
\* width and height of the boards isValidPosition() and placePiece() are called on
PlaceW == 2
PlaceH == 4
\* createRandomTetromino draws among the first NumTypes piece types
NumTypes == 1
\* pieces locked in one game before the model stops locking more
MaxPieces == 2
\* animation-frame callbacks that may be pending at once
MaxPending == 2
\* line total and score up to which GameState operations are called directly
MaxLines == 12
MaxScore == 1600

VARIABLES
    width, height, board,            \* GameBoard
    score, level, lines,             \* GameState counters
    isPaused, isGameOver, isRunning, \* GameState flags
    currentPiece, nextPiece,         \* GameEngine pieces
    pieceX, pieceY,                  \* GameEngine piece position
    animationId,                     \* GameEngine: handle of the last requested frame
    pending,                         \* handles of the frame callbacks not yet fired
    isEnabled,                       \* InputHandler.isEnabled
    destroyed,                       \* GameEngine.destroy() has run
    locked,                          \* pieces locked since the last reset
    lastOp,                          \* the operation called last
    prevLife,                        \* lifecycle state when lastOp was called
    before,                          \* the board as the last GameBoard call found it
    cleared,                         \* what clearLines() returned last
    ticked,                          \* the last operation was a frame callback that called dropPiece()
    arg,                             \* the number passed to the last GameState call
    returned,                        \* what the last GameBoard or GameState call returned
    game                             \* the TetrisGame object of the example page

vars == <<width, height, board, score, level, lines, isPaused, isGameOver,
          isRunning, currentPiece, nextPiece, pieceX, pieceY, animationId,
          pending, isEnabled, destroyed, locked, lastOp, prevLife, before,
          cleared, ticked, arg, returned, game>>

(***************************************************************************)
(* Tetromino                                                               *)
(***************************************************************************)
TETROMINO_TYPES ==
    [ I |-> << <<<<1,1,1,1>>>>,
               <<<<1>>,<<1>>,<<1>>,<<1>>>>,
               <<<<1,1,1,1>>>>,
               <<<<1>>,<<1>>,<<1>>,<<1>>>> >>,
      O |-> << <<<<1,1>>,<<1,1>>>>,
               <<<<1,1>>,<<1,1>>>>,
               <<<<1,1>>,<<1,1>>>>,
               <<<<1,1>>,<<1,1>>>> >>,
      T |-> << <<<<0,1,0>>,<<1,1,1>>>>,
               <<<<1,0>>,<<1,1>>,<<1,0>>>>,
               <<<<1,1,1>>,<<0,1,0>>>>,
               <<<<0,1>>,<<1,1>>,<<0,1>>>> >>,
      S |-> << <<<<0,1,1>>,<<1,1,0>>>>,
               <<<<1,0>>,<<1,1>>,<<0,1>>>>,
               <<<<0,1,1>>,<<1,1,0>>>>,
               <<<<1,0>>,<<1,1>>,<<0,1>>>> >>,
      Z |-> << <<<<1,1,0>>,<<0,1,1>>>>,
               <<<<0,1>>,<<1,1>>,<<1,0>>>>,
               <<<<1,1,0>>,<<0,1,1>>>>,
               <<<<0,1>>,<<1,1>>,<<1,0>>>> >>,
      J |-> << <<<<1,0,0>>,<<1,1,1>>>>,
               <<<<1,1>>,<<1,0>>,<<1,0>>>>,
               <<<<1,1,1>>,<<0,0,1>>>>,
               <<<<0,1>>,<<0,1>>,<<1,1>>>> >>,
      L |-> << <<<<0,0,1>>,<<1,1,1>>>>,
               <<<<1,0>>,<<1,0>>,<<1,1>>>>,
               <<<<1,1,1>>,<<1,0,0>>>>,
               <<<<1,1>>,<<0,1>>,<<0,1>>>> >> ]

\* Object.keys(TETROMINO_TYPES), in the order of the literal
getTetrominoTypes == <<"I", "O", "T", "S", "Z", "J", "L">>

\* the types createRandomTetromino may return within the bound
RandomTypes == { getTetrominoTypes[i] : i \in 1..NumTypes }

\* new Tetromino(type): rotation 0
Tetromino(type) == [type |-> type, rotation |-> 0]

\* null, for currentPiece and nextPiece
NoPiece == [type |-> "null", rotation |-> 0]

\* a getShape() that loses the last row of every rotated shape
getShape_withoutLastRow(piece) ==
    IF piece.rotation = 0
    THEN TETROMINO_TYPES[piece.type][1]
    ELSE SubSeq(TETROMINO_TYPES[piece.type][piece.rotation + 1], 1,
                Len(TETROMINO_TYPES[piece.type][piece.rotation + 1]) - 1)

getShape(piece) == TETROMINO_TYPES[piece.type][piece.rotation + 1]

getWidth(piece) ==
    IF Len(getShape(piece)) > 0 THEN Len(getShape(piece)[1]) ELSE 0

getHeight(piece) == Len(getShape(piece))

\* a rotate() that steps through the shape table backwards
Tetromino_rotate_backwards(piece) == [piece EXCEPT !.rotation = (piece.rotation + 3) % 4]

\* Tetromino.rotate(): the shape tables are well formed, so the validation
\* that follows the increment never reverts it
Tetromino_rotate(piece) == [piece EXCEPT !.rotation = (piece.rotation + 1) % 4]

clone(piece) == [type |-> piece.type, rotation |-> piece.rotation]

(***************************************************************************)
(* GameBoard.  A board is a function from rows 0..height-1 to functions    *)
(* from columns 0..width-1 to cell values (0 = empty, > 0 = colour id).    *)
(***************************************************************************)
Null == -1

EmptyBoard(w, h) == [row \in 0..(h - 1) |-> [col \in 0..(w - 1) |-> 0]]

isInBounds(row, col) ==
    row >= 0 /\ row < height /\ col >= 0 /\ col < width

getCellValue(b, row, col) ==
    IF row < 0 \/ row >= height \/ col < 0 \/ col >= width
    THEN Null
    ELSE b[row][col]

isFilled(b, row, col) ==
    getCellValue(b, row, col) # Null /\ getCellValue(b, row, col) > 0

getFilledCellCount(b) ==
    Cardinality({ rc \in (0..(height - 1)) \X (0..(width - 1)) :
                    b[rc[1]][rc[2]] > 0 })

\* a collision test that looks at the board's edges only
isValidPosition_boundsOnly(b, piece, x, y) ==
    /\ piece # NoPiece
    /\ \A row \in 0..(getHeight(piece) - 1) :
         \A col \in 0..(getWidth(piece) - 1) :
            getShape(piece)[row + 1][col + 1] # 0 => isInBounds(y + row, x + col)

isValidPosition(b, piece, x, y) ==
    /\ piece # NoPiece
    /\ \A row \in 0..(getHeight(piece) - 1) :
         \A col \in 0..(getWidth(piece) - 1) :
            getShape(piece)[row + 1][col + 1] # 0 =>
               /\ isInBounds(y + row, x + col)
               /\ ~isFilled(b, y + row, x + col)

\* a colour table numbered from 8 up
getColorId_fromEight(type) ==
    CASE type = "I" -> 8
      [] type = "O" -> 9
      [] type = "T" -> 10
      [] type = "S" -> 11
      [] type = "Z" -> 12
      [] type = "J" -> 13
      [] type = "L" -> 14
      [] OTHER -> 8

\* a colour table that stores every piece as 1
getColorId_alwaysOne(type) == 1

getColorId(type) ==
    CASE type = "I" -> 1
      [] type = "O" -> 2
      [] type = "T" -> 3
      [] type = "S" -> 4
      [] type = "Z" -> 5
      [] type = "J" -> 6
      [] type = "L" -> 7
      [] OTHER -> 1

\* a placePiece that writes the cells inside the board without the validity test
GameBoard_placePiece_unchecked(b, piece, x, y) ==
    [row \in 0..(height - 1) |->
       [col \in 0..(width - 1) |->
          IF /\ row - y \in 0..(getHeight(piece) - 1)
             /\ col - x \in 0..(getWidth(piece) - 1)
             /\ getShape(piece)[row - y + 1][col - x + 1] = 1
          THEN getColorId(piece.type)
          ELSE b[row][col]]]

\* GameBoard.placePiece: the board after the call (unchanged when it returns false)
GameBoard_placePiece(b, piece, x, y) ==
    IF ~isValidPosition(b, piece, x, y)
    THEN b
    ELSE [row \in 0..(height - 1) |->
            [col \in 0..(width - 1) |->
               IF /\ row - y \in 0..(getHeight(piece) - 1)
                  /\ col - x \in 0..(getWidth(piece) - 1)
                  /\ getShape(piece)[row - y + 1][col - x + 1] = 1
               THEN getColorId(piece.type)
               ELSE b[row][col]]]

\* what GameBoard.placePiece(piece, x, y) returns
placePieceReturns(b, piece, x, y) ==
    IF piece = NoPiece THEN FALSE ELSE isValidPosition(b, piece, x, y)

validateBoard(b) ==
    \A row \in 0..(height - 1) : \A col \in 0..(width - 1) : b[row][col] >= 0

setCellValue(b, row, col, value) ==
    IF row < 0 \/ row >= height \/ col < 0 \/ col >= width
    THEN b
    ELSE IF value < 0
    THEN b
    ELSE [b EXCEPT ![row][col] = value]

\* a completeness test that is satisfied by a single filled cell
isLineComplete_anyFilled(b, row) ==
    IF row < 0 \/ row >= height
    THEN FALSE
    ELSE \E col \in 0..(width - 1) : b[row][col] # 0

isLineComplete(b, row) ==
    IF row < 0 \/ row >= height
    THEN FALSE
    ELSE \A col \in 0..(width - 1) : b[row][col] # 0

\* the loop of findCompletedLines: rows from `row` up to the top, bottom first
RECURSIVE scanLines(_, _)
scanLines(b, row) ==
    IF row < 0
    THEN <<>>
    ELSE (IF isLineComplete(b, row) THEN <<row>> ELSE <<>>)
            \o scanLines(b, row - 1)

\* Array.sort((a, b) => b - a)
RECURSIVE sortDescending(_)
sortDescending(s) ==
    IF Len(s) = 0
    THEN <<>>
    ELSE LET m == CHOOSE i \in 1..Len(s) : \A j \in 1..Len(s) : s[i] >= s[j]
         IN <<s[m]>> \o sortDescending(SubSeq(s, 1, m - 1) \o SubSeq(s, m + 1, Len(s)))

findCompletedLines(b) == sortDescending(scanLines(b, height - 1))

removeLine(b, lineIndex) ==
    IF lineIndex < 0 \/ lineIndex >= height
    THEN b
    ELSE [row \in 0..(height - 1) |->
            IF row = 0 THEN [col \in 0..(width - 1) |-> 0]
            ELSE IF row <= lineIndex THEN b[row - 1]
            ELSE b[row]]

\* for (const lineIndex of completedLines) this.removeLine(lineIndex)
RECURSIVE removeCompletedLines(_, _)
removeCompletedLines(b, completedLines) ==
    IF Len(completedLines) = 0
    THEN b
    ELSE removeCompletedLines(removeLine(b, Head(completedLines)),
                              Tail(completedLines))

\* GameBoard.clearLines: the board after the call and the number returned
clearLines(b) ==
    IF Len(findCompletedLines(b)) = 0
    THEN [board |-> b, count |-> 0]
    ELSE [board |-> removeCompletedLines(b, findCompletedLines(b)),
          count |-> Len(findCompletedLines(b))]

(***************************************************************************)
(* GameState.  The operators take and return a record that holds (at       *)
(* least) the fields score, level, lines, isPaused, isGameOver, isRunning. *)
(***************************************************************************)
GameState_reset(e) ==
    [e EXCEPT !.score = 0, !.level = 1, !.lines = 0,
              !.isPaused = FALSE, !.isGameOver = FALSE, !.isRunning = FALSE]

setPaused(e, paused) ==
    IF e.isGameOver
    THEN e
    ELSE [e EXCEPT !.isPaused = paused]

\* a faulty setGameOver that forgets to clear isRunning and isPaused
setGameOver_flagOnly(e, gameOver) == [e EXCEPT !.isGameOver = gameOver]

setGameOver(e, gameOver) ==
    IF gameOver
    THEN [e EXCEPT !.isGameOver = TRUE, !.isRunning = FALSE, !.isPaused = FALSE]
    ELSE [e EXCEPT !.isGameOver = FALSE]

setRunning(e, running) ==
    IF running
    THEN [e EXCEPT !.isRunning = TRUE, !.isGameOver = FALSE]
    ELSE [e EXCEPT !.isRunning = FALSE]

\* scoreMultipliers[linesCleared] || 1
\* a multiplier table without the bonus for several lines at once
scoreMultipliers_linear(linesCleared) == linesCleared

scoreMultipliers(linesCleared) ==
    CASE linesCleared = 1 -> 1
      [] linesCleared = 2 -> 3
      [] linesCleared = 3 -> 5
      [] linesCleared = 4 -> 8
      [] OTHER -> 1

\* an updateScore that lets counts above 4 through to the default multiplier
totalPoints_defaultsToOne(e, linesCleared) ==
    IF linesCleared < 0
    THEN 0
    ELSE IF linesCleared = 0
    THEN 0
    ELSE (100 * scoreMultipliers(linesCleared)) * e.level

\* what GameState.updateScore(linesCleared) returns
totalPoints(e, linesCleared) ==
    IF linesCleared < 0 \/ linesCleared > 4
    THEN 0
    ELSE IF linesCleared = 0
    THEN 0
    ELSE (100 * scoreMultipliers(linesCleared)) * e.level

GameState_updateScore(e, linesCleared) ==
    [e EXCEPT !.score = @ + totalPoints(e, linesCleared)]

\* an addLines that counts the lines and never touches the level
addLines_noLevelUp(e, linesCleared) ==
    IF linesCleared < 0
    THEN e
    ELSE [e EXCEPT !.lines = @ + linesCleared]

addLines(e, linesCleared) ==
    IF linesCleared < 0
    THEN e
    ELSE LET newLines == e.lines + linesCleared
             newLevel == (newLines \div 10) + 1
         IN [e EXCEPT !.lines = newLines,
                      !.level = IF newLevel > e.level THEN newLevel ELSE e.level]

\* what GameState.addLines(linesCleared) returns
levelIncreased(e, linesCleared) ==
    IF linesCleared < 0
    THEN FALSE
    ELSE ((e.lines + linesCleared) \div 10) + 1 > e.level

(***************************************************************************)
(* getDropSpeed() works on JavaScript numbers.  A number is written here   *)
(* as an exact decimal fraction mant / 10^scale, mant being the sequence   *)
(* of its decimal digits with the least significant digit first, so that   *)
(* 0.9^(level - 1) is represented without rounding.                        *)
(***************************************************************************)
RECURSIVE timesDigit(_, _, _)
\* the digits of mant * k + carry, for a single digit k
timesDigit(mant, k, carry) ==
    IF mant = <<>>
    THEN IF carry = 0 THEN <<>> ELSE <<carry % 10>> \o timesDigit(<<>>, k, carry \div 10)
    ELSE <<(Head(mant) * k + carry) % 10>>
           \o timesDigit(Tail(mant), k, (Head(mant) * k + carry) \div 10)

\* mant * 10^n
shiftDigits(mant, n) == [i \in 1..n |-> 0] \o mant

RECURSIVE digitsAtLeast(_, _)
\* mant a >= mant b, neither with leading zeros
digitsAtLeast(a, b) ==
    IF Len(a) # Len(b)
    THEN Len(a) > Len(b)
    ELSE IF Len(a) = 0
    THEN TRUE
    ELSE IF a[Len(a)] # b[Len(b)]
    THEN a[Len(a)] > b[Len(b)]
    ELSE digitsAtLeast(SubSeq(a, 1, Len(a) - 1), SubSeq(b, 1, Len(b) - 1))

\* x >= y for two decimal fractions
atLeast(x, y) ==
    digitsAtLeast(shiftDigits(x.mant, y.scale), shiftDigits(y.mant, x.scale))

\* CONFIG.INITIAL_DROP_SPEED, 1000, is the factor 10^3
INITIAL_DROP_SPEED_digits == 3

RECURSIVE nineToThe(_)
\* the digits of 9^n
nineToThe(n) == IF n <= 0 THEN <<1>> ELSE timesDigit(nineToThe(n - 1), 9, 0)

\* Math.pow(CONFIG.SPEED_INCREASE_RATE, n), SPEED_INCREASE_RATE being 0.9:
\* 9^n / 10^n
powSpeedRate(n) ==
    IF n <= 0
    THEN [mant |-> <<1>>, scale |-> 0]
    ELSE [mant |-> nineToThe(n), scale |-> n]

\* const minSpeed = 50
minSpeed == [mant |-> <<0, 5>>, scale |-> 0]

\* baseSpeed * Math.pow(speedRate, this.level - 1)
calculatedSpeed(e) ==
    [mant |-> shiftDigits(powSpeedRate(e.level - 1).mant, INITIAL_DROP_SPEED_digits),
     scale |-> powSpeedRate(e.level - 1).scale]

\* a getDropSpeed() without the lower limit
getDropSpeed_unclamped(e) == calculatedSpeed(e)

\* Math.max(minSpeed, calculatedSpeed)
getDropSpeed(e) ==
    IF atLeast(calculatedSpeed(e), minSpeed) THEN calculatedSpeed(e) ELSE minSpeed

\* a processLineClear that adds the lines before it scores them
processLineClear_linesFirst(e, linesCleared) ==
    GameState_updateScore(addLines(e, linesCleared), linesCleared)

processLineClear(e, linesCleared) ==
    addLines(GameState_updateScore(e, linesCleared), linesCleared)

\* a soft drop bonus that pays like a hard drop, 2 points per cell
awardSoftDropPoints_double(e, cellsDropped) ==
    IF cellsDropped <= 0 THEN e ELSE [e EXCEPT !.score = @ + 2 * cellsDropped]

awardSoftDropPoints(e, cellsDropped) ==
    IF cellsDropped <= 0 THEN e ELSE [e EXCEPT !.score = @ + cellsDropped]

awardHardDropPoints(e, cellsDropped) ==
    IF cellsDropped <= 0 THEN e ELSE [e EXCEPT !.score = @ + cellsDropped * 2]

GameState_validateState(e) ==
    /\ e.score >= 0
    /\ e.level >= 1
    /\ e.lines >= 0
    /\ ~(e.isGameOver /\ e.isRunning)
    /\ ~(e.isPaused /\ e.isGameOver)
    /\ e.score <= 999999999
    /\ e.level <= 999
    /\ e.lines <= 999999

(***************************************************************************)
(* The host's frame scheduler.  requestAnimationFrame returns a handle     *)
(* that differs from every handle still pending; handles are only ever     *)
(* compared for equality, so the least free positive integer stands for    *)
(* the fresh handle.  NoHandle is animationId = null.                      *)
(***************************************************************************)
NoHandle == 0

newHandle(p) ==
    CHOOSE n \in 1..(Cardinality(p) + 1) :
        n \notin p /\ \A m \in 1..(n - 1) : m \in p

\* this.animationId = requestAnimationFrame(() => this.gameLoop())
requestAnimationFrame(e) ==
    [e EXCEPT !.animationId = newHandle(e.pending),
              !.pending = @ \cup {newHandle(e.pending)}]

\* if (this.animationId) { cancelAnimationFrame(this.animationId); this.animationId = null; }
cancelAnimationFrame(e) ==
    IF e.animationId # NoHandle
    THEN [e EXCEPT !.pending = @ \ {e.animationId}, !.animationId = NoHandle]
    ELSE e

(***************************************************************************)
(* GameEngine.  The operators take the engine's state as a record e and    *)
(* return the state after the call; t, t1, t2 are the types drawn by       *)
(* createRandomTetromino during the call.                                  *)
(***************************************************************************)
\* Math.floor(width / 2) - Math.floor(piece.getWidth() / 2)
spawnX(piece) == (width \div 2) - (getWidth(piece) \div 2)

\* a faulty canMove that only asks for a piece
canMove_pieceOnly(e) == e.currentPiece # NoPiece

canMove(e) ==
    /\ e.isRunning
    /\ ~e.isPaused
    /\ ~e.isGameOver
    /\ e.currentPiece # NoPiece

gameOver(e) ==
    cancelAnimationFrame([setGameOver(e, TRUE) EXCEPT !.isEnabled = FALSE])

\* a faulty spawnNextPiece that never tests the spawn position
spawnNextPiece_unchecked(e, t) ==
    [e EXCEPT !.currentPiece = e.nextPiece,
              !.nextPiece = Tetromino(t),
              !.pieceX = spawnX(e.nextPiece),
              !.pieceY = 0]

\* a faulty spawn that deals the active piece's type again and ignores the preview
spawnNextPiece_repeatsCurrent(e, t) ==
    LET e1 == [e EXCEPT !.currentPiece = Tetromino(e.currentPiece.type),
                        !.nextPiece = Tetromino(t),
                        !.pieceX = spawnX(e.currentPiece),
                        !.pieceY = 0]
    IN IF ~isValidPosition(e1.board, e1.currentPiece, e1.pieceX, e1.pieceY)
       THEN gameOver(e1)
       ELSE e1

spawnNextPiece(e, t) ==
    LET e1 == [e EXCEPT !.currentPiece = e.nextPiece,
                        !.nextPiece = Tetromino(t),
                        !.pieceX = spawnX(e.nextPiece),
                        !.pieceY = 0]
    IN IF ~isValidPosition(e1.board, e1.currentPiece, e1.pieceX, e1.pieceY)
       THEN gameOver(e1)
       ELSE e1

\* a faulty placePiece() that spawns the next piece without clearing lines
GameEngine_placePiece_noClear(e, t) ==
    IF e.currentPiece = NoPiece
    THEN e
    ELSE IF isValidPosition(e.board, e.currentPiece, e.pieceX, e.pieceY)
    THEN spawnNextPiece([e EXCEPT !.board = GameBoard_placePiece(e.board, e.currentPiece,
                                                                 e.pieceX, e.pieceY),
                                  !.cleared = 0,
                                  !.locked = @ + 1], t)
    ELSE gameOver(e)

\* the lock sequence of GameEngine.placePiece()
GameEngine_placePiece(e, t) ==
    IF e.currentPiece = NoPiece
    THEN e
    ELSE IF isValidPosition(e.board, e.currentPiece, e.pieceX, e.pieceY)
    THEN LET placed == GameBoard_placePiece(e.board, e.currentPiece, e.pieceX, e.pieceY)
             e1 == [e EXCEPT !.board = clearLines(placed).board,
                             !.cleared = clearLines(placed).count,
                             !.locked = @ + 1]
             e2 == IF e1.cleared > 0 THEN processLineClear(e1, e1.cleared) ELSE e1
         IN spawnNextPiece(e2, t)
    ELSE gameOver(e)

\* a dropPiece() that leaves a piece that cannot move down where it is
dropPiece_hovering(e, t) ==
    IF e.currentPiece = NoPiece
    THEN e
    ELSE IF isValidPosition(e.board, e.currentPiece, e.pieceX, e.pieceY + 1)
    THEN [e EXCEPT !.pieceY = @ + 1]
    ELSE e

dropPiece(e, t) ==
    IF e.currentPiece = NoPiece
    THEN e
    ELSE IF isValidPosition(e.board, e.currentPiece, e.pieceX, e.pieceY + 1)
    THEN [e EXCEPT !.pieceY = @ + 1]
    ELSE GameEngine_placePiece(e, t)

processLineClearAfterDrop(e) ==
    LET e1 == [e EXCEPT !.board = clearLines(e.board).board,
                        !.cleared = clearLines(e.board).count]
    IN IF e1.cleared > 0 THEN processLineClear(e1, e1.cleared) ELSE e1

handleDropCompletion(e, t) ==
    IF e.currentPiece = NoPiece
    THEN e
    ELSE IF ~isValidPosition(e.board, e.currentPiece, e.pieceX, e.pieceY)
    THEN gameOver(e)
    ELSE LET e1 == [e EXCEPT !.board = GameBoard_placePiece(e.board, e.currentPiece,
                                                            e.pieceX, e.pieceY),
                             !.locked = @ + 1]
         IN spawnNextPiece(processLineClearAfterDrop(e1), t)

\* a faulty moveLeft without the canMove() guard
moveLeft_unguarded(e) ==
    IF e.currentPiece = NoPiece
    THEN e
    ELSE IF isValidPosition(e.board, e.currentPiece, e.pieceX - 1, e.pieceY)
    THEN [e EXCEPT !.pieceX = @ - 1]
    ELSE e

moveLeft(e) ==
    IF ~canMove(e) \/ e.currentPiece = NoPiece
    THEN e
    ELSE IF isValidPosition(e.board, e.currentPiece, e.pieceX - 1, e.pieceY)
    THEN [e EXCEPT !.pieceX = @ - 1]
    ELSE e

moveRight(e) ==
    IF ~canMove(e) \/ e.currentPiece = NoPiece
    THEN e
    ELSE IF isValidPosition(e.board, e.currentPiece, e.pieceX + 1, e.pieceY)
    THEN [e EXCEPT !.pieceX = @ + 1]
    ELSE e

wallKickOffsets == <<-1, 1, -2, 2>>

\* the for loop over wallKickOffsets, from its i-th offset on
RECURSIVE tryWallKicks(_, _, _)
tryWallKicks(e, testPiece, i) ==
    IF i > Len(wallKickOffsets)
    THEN e
    ELSE IF isValidPosition(e.board, testPiece, e.pieceX + wallKickOffsets[i], e.pieceY)
    THEN [e EXCEPT !.currentPiece = Tetromino_rotate(e.currentPiece),
                   !.pieceX = @ + wallKickOffsets[i]]
    ELSE tryWallKicks(e, testPiece, i + 1)

\* a rotate() that gives up when the rotated piece does not fit where it is
GameEngine_rotate_noKicks(e) ==
    IF ~canMove(e) \/ e.currentPiece = NoPiece
    THEN e
    ELSE IF isValidPosition(e.board, Tetromino_rotate(clone(e.currentPiece)),
                            e.pieceX, e.pieceY)
    THEN [e EXCEPT !.currentPiece = Tetromino_rotate(e.currentPiece)]
    ELSE e

GameEngine_rotate(e) ==
    IF ~canMove(e) \/ e.currentPiece = NoPiece
    THEN e
    ELSE LET testPiece == Tetromino_rotate(clone(e.currentPiece))
         IN IF isValidPosition(e.board, testPiece, e.pieceX, e.pieceY)
            THEN [e EXCEPT !.currentPiece = Tetromino_rotate(e.currentPiece)]
            ELSE tryWallKicks(e, testPiece, 1)

softDrop(e, t) ==
    IF ~canMove(e) \/ e.currentPiece = NoPiece
    THEN e
    ELSE IF isValidPosition(e.board, e.currentPiece, e.pieceX, e.pieceY + 1)
    THEN awardSoftDropPoints([e EXCEPT !.pieceY = @ + 1], 1)
    ELSE GameEngine_placePiece(e, t)

\* while (isValidPosition(currentPiece, pieceX, pieceY + 1)) pieceY++
RECURSIVE dropAsFarAsPossible(_)
dropAsFarAsPossible(e) ==
    IF isValidPosition(e.board, e.currentPiece, e.pieceX, e.pieceY + 1)
    THEN dropAsFarAsPossible([e EXCEPT !.pieceY = @ + 1])
    ELSE e

\* a hardDrop() that moves the piece down and leaves the lock to the next tick
hardDrop_noLock(e, t) ==
    IF ~canMove(e)
    THEN e
    ELSE LET e1 == dropAsFarAsPossible(e)
         IN awardHardDropPoints(e1, e1.pieceY - e.pieceY)

hardDrop(e, t) ==
    IF ~canMove(e)
    THEN e
    ELSE LET e1 == dropAsFarAsPossible(e)
         IN handleDropCompletion(awardHardDropPoints(e1, e1.pieceY - e.pieceY), t)

\* a faulty reset() that leaves the pieces locked so far on the board
GameEngine_reset_keepsBoard(e) ==
    [GameState_reset(e) EXCEPT !.currentPiece = NoPiece,
                               !.nextPiece = NoPiece,
                               !.pieceX = 0,
                               !.pieceY = 0,
                               !.locked = 0]

\* GameEngine.reset() as the class ends up defining it
GameEngine_reset(e) ==
    [GameState_reset(e) EXCEPT !.board = EmptyBoard(width, height),
                               !.currentPiece = NoPiece,
                               !.nextPiece = NoPiece,
                               !.pieceX = 0,
                               !.pieceY = 0,
                               !.locked = 0]

validateCurrentPiece(e) ==
    \/ e.currentPiece = NoPiece
    \/ ~(\/ e.pieceX < -10 \/ e.pieceX > width + 10
         \/ e.pieceY < -10 \/ e.pieceY > height + 10)

validateGameState(e) ==
    /\ validateBoard(e.board)
    /\ GameState_validateState(e)
    /\ validateCurrentPiece(e)

\* attemptGeneralRecovery(): reset when the state is still invalid
attemptGeneralRecovery(e) ==
    IF ~validateGameState(e) THEN GameEngine_reset(e) ELSE e

\* GameEngine.gameLoop() as the class ends up defining it; `due` says whether
\* Date.now() - lastDropTime >= getDropSpeed() at the call.  render() draws
\* and changes nothing of the game.
gameLoop(e, due, t) ==
    IF ~validateGameState(e)
    THEN attemptGeneralRecovery(e)
    ELSE IF ~e.isRunning \/ e.isGameOver
    THEN e
    ELSE requestAnimationFrame(IF ~e.isPaused /\ due THEN dropPiece(e, t) ELSE e)

\* whether this run of gameLoop() reaches its dropPiece() call
callsDropPiece(e, due) ==
    /\ validateGameState(e)
    /\ e.isRunning
    /\ ~e.isGameOver
    /\ ~e.isPaused
    /\ due

start(e, t1, t2) ==
    IF e.isRunning
    THEN e
    ELSE LET e1 == [GameEngine_reset(e) EXCEPT !.currentPiece = Tetromino(t1),
                                               !.nextPiece = Tetromino(t2),
                                               !.pieceX = spawnX(Tetromino(t1)),
                                               !.pieceY = 0]
         IN IF ~isValidPosition(e1.board, e1.currentPiece, e1.pieceX, e1.pieceY)
            THEN gameOver(e1)
            ELSE gameLoop([setRunning(e1, TRUE) EXCEPT !.isEnabled = TRUE], FALSE, t1)

\* a faulty pause that pauses but never resumes
pause_neverResumes(e) ==
    IF e.isGameOver
    THEN e
    ELSE IF ~e.isRunning
    THEN e
    ELSE [setPaused(e, TRUE) EXCEPT !.isEnabled = FALSE]

pause(e) ==
    IF e.isGameOver
    THEN e
    ELSE IF ~e.isRunning
    THEN e
    ELSE [setPaused(e, ~e.isPaused) EXCEPT
             !.isEnabled = ~setPaused(e, ~e.isPaused).isPaused]

resume(e) ==
    IF ~e.isPaused THEN e ELSE pause(e)

restart(e, t1, t2) == start(GameEngine_reset(e), t1, t2)

\* what destroy() does to the scheduler and the input handler
destroy(e) ==
    [cancelAnimationFrame(e) EXCEPT !.isEnabled = FALSE]

(***************************************************************************)
(* InputHandler.handleKeyDown.  `repeat` says whether the key arrives      *)
(* within keyRepeatDelay of its previous press.                            *)
(***************************************************************************)
Keys == {"ArrowLeft", "ArrowRight", "ArrowUp", "ArrowDown", " ", "Escape"}

keyMap(key) ==
    CASE key = "ArrowLeft" -> "moveLeft"
      [] key = "ArrowRight" -> "moveRight"
      [] key = "ArrowUp" -> "rotate"
      [] key = "ArrowDown" -> "softDrop"
      [] key = " " -> "pause"
      [] key = "Escape" -> "pause"

keyRepeatKeys == {"ArrowLeft", "ArrowRight", "ArrowDown"}

isInputAllowedInCurrentState(e, command) ==
    IF command = "pause" THEN TRUE ELSE ~e.isGameOver

shouldPreventRepeat(key, repeat) ==
    IF key \notin keyRepeatKeys THEN FALSE ELSE repeat

executeCommand(e, command, t) ==
    CASE command = "moveLeft" -> moveLeft(e)
      [] command = "moveRight" -> moveRight(e)
      [] command = "rotate" -> GameEngine_rotate(e)
      [] command = "softDrop" -> softDrop(e, t)
      [] command = "pause" -> pause(e)

\* a key handler that holds the pause command back like any other while input is disabled
handleKeyDown_pauseNeedsEnabled(e, key, repeat, t) ==
    IF ~isInputAllowedInCurrentState(e, keyMap(key))
    THEN e
    ELSE IF ~e.isEnabled
    THEN e
    ELSE IF shouldPreventRepeat(key, repeat)
    THEN e
    ELSE executeCommand(e, keyMap(key), t)

handleKeyDown(e, key, repeat, t) ==
    IF ~isInputAllowedInCurrentState(e, keyMap(key))
    THEN e
    ELSE IF keyMap(key) = "pause"
    THEN executeCommand(e, "pause", t)
    ELSE IF ~e.isEnabled
    THEN e
    ELSE IF shouldPreventRepeat(key, repeat)
    THEN e
    ELSE executeCommand(e, keyMap(key), t)

(***************************************************************************)
(* TetrisGame, the example game.  A game object is a record; a piece is a  *)
(* record of its 4x4 shape, its colour and its position.  A colour is      *)
(* written as the number of its piece type, 1..7, in place of the hex      *)
(* string: the code only ever tests a board cell for being 0 or not.       *)
(* `loops` counts the requestAnimationFrame callbacks not yet fired.       *)
(***************************************************************************)
TETROMINOS ==
    [ I |-> [shape |-> <<<<0,0,0,0>>, <<1,1,1,1>>, <<0,0,0,0>>, <<0,0,0,0>>>>, color |-> 1],
      O |-> [shape |-> <<<<0,0,0,0>>, <<0,1,1,0>>, <<0,1,1,0>>, <<0,0,0,0>>>>, color |-> 2],
      T |-> [shape |-> <<<<0,0,0,0>>, <<0,1,0,0>>, <<1,1,1,0>>, <<0,0,0,0>>>>, color |-> 3],
      S |-> [shape |-> <<<<0,0,0,0>>, <<0,1,1,0>>, <<1,1,0,0>>, <<0,0,0,0>>>>, color |-> 4],
      Z |-> [shape |-> <<<<0,0,0,0>>, <<1,1,0,0>>, <<0,1,1,0>>, <<0,0,0,0>>>>, color |-> 5],
      J |-> [shape |-> <<<<0,0,0,0>>, <<1,0,0,0>>, <<1,1,1,0>>, <<0,0,0,0>>>>, color |-> 6],
      L |-> [shape |-> <<<<0,0,0,0>>, <<0,0,1,0>>, <<1,1,1,0>>, <<0,0,0,0>>>>, color |-> 7] ]

\* the types createRandomPiece may draw within the bound
ExTypes == { getTetrominoTypes[i] : i \in 1..NumExTypes }

createEmptyBoard == [y \in 0..(ExH - 1) |-> [x \in 0..(ExW - 1) |-> 0]]

\* createRandomPiece() when the random draw is type t
createRandomPiece(t) ==
    [shape |-> TETROMINOS[t].shape, color |-> TETROMINOS[t].color,
     x |-> (ExW \div 2) - 2, y |-> 0]

\* null, for the pieces of a game object before startNewGame()
NoExPiece == [shape |-> <<>>, color |-> 0, x |-> 0, y |-> 0]

\* the fields the TetrisGame constructor sets before it calls startNewGame()
NewTetrisGame ==
    [board |-> createEmptyBoard, currentPiece |-> NoExPiece, nextPiece |-> NoExPiece,
     score |-> 0, level |-> 1, lines |-> 0,
     gameRunning |-> FALSE, gamePaused |-> FALSE, loops |-> 0]

checkCollision(g, piece, dx, dy) ==
    \E y \in 0..3, x \in 0..3 :
       /\ piece.shape[y + 1][x + 1] # 0
       /\ \/ piece.x + dx + x < 0
          \/ piece.x + dx + x >= ExW
          \/ piece.y + dy + y >= ExH
          \/ /\ piece.y + dy + y >= 0
             /\ g.board[piece.y + dy + y][piece.x + dx + x] # 0

\* movePiece(dx, dy): the game after the call; it returned true exactly
\* when checkCollision(currentPiece, dx, dy) was false
movePiece(g, dx, dy) ==
    IF ~checkCollision(g, g.currentPiece, dx, dy)
    THEN [g EXCEPT !.currentPiece.x = @ + dx, !.currentPiece.y = @ + dy]
    ELSE g

\* a rotation that writes row i into column i + 1 instead of column 3 - i
rotateMatrix_shifted(matrix) ==
    [j \in 1..4 |-> [k \in 1..4 |-> matrix[(k % 4) + 1][j]]]

\* rotated[j][3 - i] = matrix[i][j]
rotateMatrix(matrix) ==
    [j \in 1..4 |-> [k \in 1..4 |-> matrix[4 - k + 1][j]]]

rotatePiece(g) ==
    LET turned == [g EXCEPT !.currentPiece.shape = rotateMatrix(@)]
    IN IF checkCollision(turned, turned.currentPiece, 0, 0) THEN g ELSE turned

TetrisGame_gameOver(g) == [g EXCEPT !.gameRunning = FALSE]

\* this.board.splice(y, 1); this.board.unshift(Array(BOARD_WIDTH).fill(0))
spliceAndUnshift(b, y) ==
    [r \in 0..(ExH - 1) |->
       IF r = 0 THEN [x \in 0..(ExW - 1) |-> 0]
       ELSE IF r <= y THEN b[r - 1]
       ELSE b[r]]

\* a loop without the y++ that makes it check the same row again
RECURSIVE clearLinesFrom_noRecheck(_, _, _)
clearLinesFrom_noRecheck(b, y, n) ==
    IF y < 0
    THEN [board |-> b, linesCleared |-> n]
    ELSE IF \A x \in 0..(ExW - 1) : b[y][x] # 0
    THEN clearLinesFrom_noRecheck(spliceAndUnshift(b, y), y - 1, n + 1)
    ELSE clearLinesFrom_noRecheck(b, y - 1, n)

\* the for loop of clearLines() from row y on, with n lines cleared so far;
\* after a removal the same row is checked again
RECURSIVE clearLinesFrom(_, _, _)
clearLinesFrom(b, y, n) ==
    IF y < 0
    THEN [board |-> b, linesCleared |-> n]
    ELSE IF \A x \in 0..(ExW - 1) : b[y][x] # 0
    THEN clearLinesFrom(spliceAndUnshift(b, y), y, n + 1)
    ELSE clearLinesFrom(b, y - 1, n)

\* updateScore(linesCleared): score, lines and level (the rest writes the page)
TetrisGame_updateScore(g, linesCleared) ==
    IF linesCleared > 0
    THEN LET newLines == g.lines + linesCleared
             newLevel == (newLines \div 10) + 1
         IN [g EXCEPT !.score = @ + <<100, 300, 500, 800>>[linesCleared] * g.level,
                      !.lines = newLines,
                      !.level = IF newLevel > g.level THEN newLevel ELSE g.level]
    ELSE g

TetrisGame_clearLines(g) ==
    LET res == clearLinesFrom(g.board, ExH - 1, 0)
    IN IF res.linesCleared > 0
       THEN TetrisGame_updateScore([g EXCEPT !.board = res.board], res.linesCleared)
       ELSE [g EXCEPT !.board = res.board]

\* spawnNewPiece() when createRandomPiece draws type t
spawnNewPiece(g, t) ==
    LET g1 == [g EXCEPT !.currentPiece = g.nextPiece, !.nextPiece = createRandomPiece(t)]
    IN IF checkCollision(g1, g1.currentPiece, 0, 0) THEN TetrisGame_gameOver(g1) ELSE g1

TetrisGame_placePiece(g, t) ==
    LET p == g.currentPiece
        placed == [y \in 0..(ExH - 1) |-> [x \in 0..(ExW - 1) |->
                     IF /\ y - p.y \in 0..3
                        /\ x - p.x \in 0..3
                        /\ p.shape[y - p.y + 1][x - p.x + 1] # 0
                     THEN p.color
                     ELSE g.board[y][x]]]
    IN spawnNewPiece(TetrisGame_clearLines([g EXCEPT !.board = placed]), t)

\* while (this.movePiece(0, 1)) {}
RECURSIVE moveDownWhilePossible(_)
moveDownWhilePossible(g) ==
    IF ~checkCollision(g, g.currentPiece, 0, 1)
    THEN moveDownWhilePossible(movePiece(g, 0, 1))
    ELSE g

TetrisGame_hardDrop(g, t) == TetrisGame_placePiece(moveDownWhilePossible(g), t)

\* gameLoop(): `due` says whether now - dropTime > dropInterval
TetrisGame_gameLoop(g, due, t) ==
    IF ~g.gameRunning \/ g.gamePaused
    THEN g
    ELSE LET g1 == IF due
                   THEN IF checkCollision(g, g.currentPiece, 0, 1)
                        THEN TetrisGame_placePiece(g, t)
                        ELSE movePiece(g, 0, 1)
                   ELSE g
         IN [g1 EXCEPT !.loops = @ + 1]

togglePause(g, due, t) ==
    IF ~g.gameRunning
    THEN g
    ELSE LET g1 == [g EXCEPT !.gamePaused = ~@]
         IN IF ~g1.gamePaused THEN TetrisGame_gameLoop(g1, due, t) ELSE g1

\* startNewGame() when the two pieces drawn are t1 and t2, and a piece
\* locked by its first gameLoop() is followed by one of type t3; dropTime is
\* 0, so the drop of that first gameLoop() is always due
startNewGame(g, t1, t2, t3) ==
    LET g1 == [g EXCEPT !.board = createEmptyBoard, !.score = 0, !.level = 1,
                        !.lines = 0, !.gameRunning = TRUE, !.gamePaused = FALSE,
                        !.nextPiece = createRandomPiece(t1)]
    IN TetrisGame_gameLoop(spawnNewPiece(g1, t2), TRUE, t3)

ExCodes == {"ArrowLeft", "ArrowRight", "ArrowDown", "ArrowUp", "Space", "KeyP"}

handleKeyPress(g, code, due, t) ==
    IF ~g.gameRunning \/ g.gamePaused
    THEN g
    ELSE CASE code = "ArrowLeft" -> movePiece(g, -1, 0)
           [] code = "ArrowRight" -> movePiece(g, 1, 0)
           [] code = "ArrowDown" -> movePiece(g, 0, 1)
           [] code = "ArrowUp" -> rotatePiece(g)
           [] code = "Space" -> TetrisGame_hardDrop(g, t)
           [] code = "KeyP" -> togglePause(g, due, t)
           [] OTHER -> g

(***************************************************************************)
(* The state machine.  Eng gathers the variables into the record the       *)
(* operators above work on; SetEng writes such a record back.              *)
(***************************************************************************)
Eng ==
    [board |-> board, score |-> score, level |-> level, lines |-> lines,
     isPaused |-> isPaused, isGameOver |-> isGameOver, isRunning |-> isRunning,
     currentPiece |-> currentPiece, nextPiece |-> nextPiece,
     pieceX |-> pieceX, pieceY |-> pieceY,
     animationId |-> animationId, pending |-> pending,
     isEnabled |-> isEnabled, locked |-> locked, cleared |-> cleared]

SetEng(e) ==
    /\ board' = e.board
    /\ score' = e.score
    /\ level' = e.level
    /\ lines' = e.lines
    /\ isPaused' = e.isPaused
    /\ isGameOver' = e.isGameOver
    /\ isRunning' = e.isRunning
    /\ currentPiece' = e.currentPiece
    /\ nextPiece' = e.nextPiece
    /\ pieceX' = e.pieceX
    /\ pieceY' = e.pieceY
    /\ animationId' = e.animationId
    /\ pending' = e.pending
    /\ isEnabled' = e.isEnabled
    /\ locked' = e.locked
    /\ cleared' = e.cleared

\* the lifecycle state the three flags stand for
Lifecycle ==
    IF destroyed THEN "Destroyed"
    ELSE IF ~isRunning /\ ~isPaused /\ ~isGameOver THEN "Idle"
    ELSE IF isRunning /\ ~isPaused /\ ~isGameOver THEN "Running"
    ELSE IF isRunning /\ isPaused /\ ~isGameOver THEN "Paused"
    ELSE IF ~isRunning /\ ~isPaused /\ isGameOver THEN "GameOver"
    ELSE "Invalid"

\* the state after new GameEngine(...) on a w x h board
Constructed(w, h) ==
    /\ width = w
    /\ height = h
    /\ board = EmptyBoard(w, h)
    /\ score = 0
    /\ level = 1
    /\ lines = 0
    /\ isPaused = FALSE
    /\ isGameOver = FALSE
    /\ isRunning = FALSE
    /\ currentPiece = NoPiece
    /\ nextPiece = NoPiece
    /\ pieceX = 0
    /\ pieceY = 0
    /\ animationId = NoHandle
    /\ pending = {}
    /\ isEnabled = TRUE
    /\ destroyed = FALSE
    /\ locked = 0
    /\ lastOp = "new"
    /\ prevLife = "Idle"
    /\ before = EmptyBoard(w, h)
    /\ cleared = 0
    /\ ticked = FALSE
    /\ arg = 0
    /\ returned = 0

Init == Constructed(W, H) /\ game = NewTetrisGame

\* one run of a GameEngine method or callback, returning the engine as e;
\* tick says whether it called dropPiece() as a gravity tick
Method(op, e, tick) ==
    /\ ~destroyed
    /\ e.locked <= MaxPieces
    /\ SetEng(e)
    /\ lastOp' = op
    /\ prevLife' = Lifecycle
    /\ ticked' = tick
    /\ UNCHANGED <<game, width, height, destroyed, before, arg, returned>>

\* one call of a GameEngine method, returning the engine as e
Call(op, e) == Method(op, e, FALSE)

Start ==
    /\ Cardinality(pending) < MaxPending
    /\ \E t1 \in RandomTypes, t2 \in RandomTypes : Call("start", start(Eng, t1, t2))

Pause == Call("pause", pause(Eng))

Resume == Call("resume", resume(Eng))

Restart ==
    /\ Cardinality(pending) < MaxPending
    /\ \E t1 \in RandomTypes, t2 \in RandomTypes : Call("restart", restart(Eng, t1, t2))

Reset == Call("reset", GameEngine_reset(Eng))

MoveLeft == Call("moveLeft", moveLeft(Eng))

MoveRight == Call("moveRight", moveRight(Eng))

Rotate == Call("rotate", GameEngine_rotate(Eng))

SoftDrop == \E t \in RandomTypes : Call("softDrop", softDrop(Eng, t))

HardDrop == \E t \in RandomTypes : Call("hardDrop", hardDrop(Eng, t))

KeyDown ==
    \E key \in Keys, repeat \in BOOLEAN, t \in RandomTypes :
        Call(key, handleKeyDown(Eng, key, repeat, t))

\* the host runs the callback behind handle h: () => this.gameLoop()
Frame ==
    \E h \in pending, due \in BOOLEAN, t \in RandomTypes :
        Method("frame", gameLoop([Eng EXCEPT !.pending = @ \ {h}], due, t),
               callsDropPiece(Eng, due))

\* a callback that outlives destroy() finds the engine's components gone and
\* throws before it can schedule anything
FrameAfterDestroy ==
    /\ destroyed
    /\ \E h \in pending : pending' = pending \ {h}
    /\ lastOp' = "frame"
    /\ prevLife' = Lifecycle
    /\ UNCHANGED <<game, width, height, board, score, level, lines, isPaused, isGameOver,
                   isRunning, currentPiece, nextPiece, pieceX, pieceY, animationId,
                   isEnabled, destroyed, locked, before, cleared, arg, returned>>
    /\ ticked' = FALSE

Destroy ==
    /\ ~destroyed
    /\ SetEng([destroy(Eng) EXCEPT !.currentPiece = NoPiece, !.nextPiece = NoPiece])
    /\ destroyed' = TRUE
    /\ lastOp' = "destroy"
    /\ prevLife' = Lifecycle
    /\ ticked' = FALSE
    /\ UNCHANGED <<game, width, height, before, arg, returned>>

Next ==
    \/ Start
    \/ Pause
    \/ Resume
    \/ Restart
    \/ Reset
    \/ MoveLeft
    \/ MoveRight
    \/ Rotate
    \/ SoftDrop
    \/ HardDrop
    \/ KeyDown
    \/ Frame
    \/ FrameAfterDestroy
    \/ Destroy

Spec == Init /\ [][Next]_vars

\* the engine of a player who starts, restarts and pauses the game, and
\* moves, rotates and soft-drops the piece while the frame callbacks run
NextGravity ==
    \/ Start
    \/ Restart
    \/ Pause
    \/ MoveLeft
    \/ MoveRight
    \/ Rotate
    \/ SoftDrop
    \/ Frame

SpecGravity == Init /\ [][NextGravity]_vars

(***************************************************************************)
(* A GameBoard used on its own: cells are set one at a time and            *)
(* clearLines() is called on whatever board results.  `before` is the      *)
(* board as the last call found it, `cleared` what clearLines() returned.  *)
(***************************************************************************)
InitBoard == Constructed(TestW, TestH) /\ game = NewTetrisGame

BoardUnchanged ==
    UNCHANGED <<game, width, height, score, level, lines, isPaused, isGameOver, isRunning,
                currentPiece, nextPiece, pieceX, pieceY, animationId, pending,
                isEnabled, destroyed, locked, prevLife, ticked, arg, returned>>

SetCellValue ==
    \E row \in (-1)..height, col \in (-1)..width, value \in (-1)..1 :
        /\ board' = setCellValue(board, row, col, value)
        /\ before' = board
        /\ cleared' = 0
        /\ lastOp' = "setCellValue"
        /\ BoardUnchanged

ClearLines ==
    /\ board' = clearLines(board).board
    /\ before' = board
    /\ cleared' = clearLines(board).count
    /\ lastOp' = "clearLines"
    /\ BoardUnchanged

NextBoard ==
    \/ SetCellValue
    \/ ClearLines

SpecBoard == InitBoard /\ [][NextBoard]_vars

(***************************************************************************)
(* One game played on a taller board by a player who stands every piece    *)
(* upright, moves it over a column and hard-drops it: start() once, then   *)
(* rotate(), moveLeft(), moveRight() and hardDrop().                       *)
(***************************************************************************)
InitPlay == Constructed(PlayW, PlayH) /\ game = NewTetrisGame

Play(op, e) ==
    /\ e.locked <= MaxPlayPieces
    /\ SetEng(e)
    /\ lastOp' = op
    /\ prevLife' = Lifecycle
    /\ ticked' = FALSE
    /\ UNCHANGED <<game, width, height, destroyed, before, arg, returned>>

PlayStart ==
    /\ Lifecycle = "Idle"
    /\ \E t1 \in RandomTypes, t2 \in RandomTypes : Play("start", start(Eng, t1, t2))

PlayMoveLeft == Play("moveLeft", moveLeft(Eng))

PlayMoveRight == Play("moveRight", moveRight(Eng))

PlayRotate == Play("rotate", GameEngine_rotate(Eng))

PlayHardDrop ==
    /\ currentPiece # NoPiece
    /\ getHeight(currentPiece) > getWidth(currentPiece)
    /\ \E t \in RandomTypes : Play("hardDrop", hardDrop(Eng, t))

NextPlay ==
    \/ PlayStart
    \/ PlayMoveLeft
    \/ PlayMoveRight
    \/ PlayRotate
    \/ PlayHardDrop

SpecPlay == InitPlay /\ [][NextPlay]_vars

(***************************************************************************)
(* A short game with pieces of several types: start(), reset(), the        *)
(* movement commands, hard drops and the frames of the loop.               *)
(***************************************************************************)
InitSpawn == Constructed(SpawnW, SpawnH) /\ game = NewTetrisGame

SpawnTypes == { getTetrominoTypes[i] : i \in 1..NumSpawnTypes }

Spawn(op, e, tick) ==
    /\ e.locked <= MaxSpawnPieces
    /\ SetEng(e)
    /\ lastOp' = op
    /\ prevLife' = Lifecycle
    /\ ticked' = tick
    /\ UNCHANGED <<game, width, height, destroyed, before, arg, returned>>

SpawnStart ==
    /\ pending = {}
    /\ \E t1 \in SpawnTypes, t2 \in SpawnTypes : Spawn("start", start(Eng, t1, t2), FALSE)

SpawnReset == Spawn("reset", GameEngine_reset(Eng), FALSE)

SpawnMoveLeft == Spawn("moveLeft", moveLeft(Eng), FALSE)

SpawnMoveRight == Spawn("moveRight", moveRight(Eng), FALSE)

SpawnRotate == Spawn("rotate", GameEngine_rotate(Eng), FALSE)

SpawnHardDrop == \E t \in SpawnTypes : Spawn("hardDrop", hardDrop(Eng, t), FALSE)

SpawnFrame ==
    \E h \in pending, due \in BOOLEAN, t \in SpawnTypes :
        Spawn("frame", gameLoop([Eng EXCEPT !.pending = @ \ {h}], due, t),
              callsDropPiece(Eng, due))

NextSpawn ==
    \/ SpawnStart
    \/ SpawnReset
    \/ SpawnMoveLeft
    \/ SpawnMoveRight
    \/ SpawnRotate
    \/ SpawnHardDrop
    \/ SpawnFrame

SpecSpawn == InitSpawn /\ [][NextSpawn]_vars

(***************************************************************************)
(* The example page: new TetrisGame() on load, then key presses, the two   *)
(* buttons and the frame callbacks.  prevLife is the state of the example  *)
(* game when the last of them arrived.                                     *)
(***************************************************************************)
ExLifecycle ==
    IF ~game.gameRunning THEN "GameOver"
    ELSE IF game.gamePaused THEN "Paused"
    ELSE "Running"

InitExample ==
    /\ Constructed(W, H)
    /\ \E t1 \in ExTypes, t2 \in ExTypes, t3 \in ExTypes :
          game = startNewGame(NewTetrisGame, t1, t2, t3)

Example(op, g) ==
    /\ g.loops <= MaxExLoops
    /\ g.score <= MaxExScore
    /\ game' = g
    /\ lastOp' = op
    /\ prevLife' = ExLifecycle
    /\ UNCHANGED <<width, height, board, score, level, lines, isPaused, isGameOver,
                   isRunning, currentPiece, nextPiece, pieceX, pieceY, animationId,
                   pending, isEnabled, destroyed, locked, before, cleared, ticked,
                   arg, returned>>

KeyPress ==
    \E code \in ExCodes, due \in BOOLEAN, t \in ExTypes :
        Example(code, handleKeyPress(game, code, due, t))

PauseButton ==
    \E due \in BOOLEAN, t \in ExTypes : Example("pauseBtn", togglePause(game, due, t))

NewGameButton ==
    \E t1 \in ExTypes, t2 \in ExTypes, t3 \in ExTypes :
        Example("newGameBtn", startNewGame(game, t1, t2, t3))

\* the host runs one pending callback: () => this.gameLoop()
ExampleFrame ==
    /\ game.loops > 0
    /\ \E due \in BOOLEAN, t \in ExTypes :
          Example("frame", TetrisGame_gameLoop([game EXCEPT !.loops = @ - 1], due, t))

NextExample ==
    \/ KeyPress
    \/ PauseButton
    \/ NewGameButton
    \/ ExampleFrame

SpecExample == InitExample /\ [][NextExample]_vars

(***************************************************************************)
(* A GameBoard asked about one piece at one position: the board holds any  *)
(* pattern of filled cells, the piece is of any type in any rotation, and  *)
(* the position may lie outside the board on every side.                   *)
(***************************************************************************)
InitPlace ==
    /\ game = NewTetrisGame
    /\ width = PlaceW
    /\ height = PlaceH
    /\ board \in [0..(PlaceH - 1) -> [0..(PlaceW - 1) -> {0, 1}]]
    /\ before = board
    /\ currentPiece \in { [type |-> getTetrominoTypes[i], rotation |-> r] :
                             i \in 1..Len(getTetrominoTypes), r \in 0..3 }
    /\ pieceX \in (-1)..(PlaceW - 1)
    /\ pieceY \in (-1)..(PlaceH - 2)
    /\ score = 0
    /\ level = 1
    /\ lines = 0
    /\ isPaused = FALSE
    /\ isGameOver = FALSE
    /\ isRunning = FALSE
    /\ nextPiece = NoPiece
    /\ animationId = NoHandle
    /\ pending = {}
    /\ isEnabled = TRUE
    /\ destroyed = FALSE
    /\ locked = 0
    /\ lastOp = "new"
    /\ prevLife = "Idle"
    /\ cleared = 0
    /\ ticked = FALSE
    /\ arg = 0
    /\ returned = 0

PlaceUnchanged ==
    UNCHANGED <<game, width, height, score, level, lines, isPaused, isGameOver, isRunning,
                currentPiece, nextPiece, pieceX, pieceY, animationId, pending,
                isEnabled, destroyed, locked, prevLife, cleared, ticked, arg>>

IsValidPosition ==
    /\ returned' = isValidPosition(board, currentPiece, pieceX, pieceY)
    /\ board' = board
    /\ before' = board
    /\ lastOp' = "isValidPosition"
    /\ PlaceUnchanged

PlacePiece ==
    /\ returned' = placePieceReturns(board, currentPiece, pieceX, pieceY)
    /\ board' = GameBoard_placePiece(board, currentPiece, pieceX, pieceY)
    /\ before' = board
    /\ lastOp' = "placePiece"
    /\ PlaceUnchanged

NextPlace ==
    \/ IsValidPosition
    \/ PlacePiece

SpecPlace == InitPlace /\ [][NextPlace]_vars

(***************************************************************************)
(* A GameState used on its own: its setters and counters are called in     *)
(* any order with any argument.                                            *)
(***************************************************************************)
InitState == Constructed(W, H) /\ game = NewTetrisGame

StateCall(op, e, n, r) ==
    /\ e.lines <= MaxLines
    /\ e.score <= MaxScore
    /\ SetEng(e)
    /\ lastOp' = op
    /\ prevLife' = Lifecycle
    /\ arg' = n
    /\ returned' = r
    /\ UNCHANGED <<game, width, height, destroyed, before, ticked>>

StateReset == StateCall("GameState.reset", GameState_reset(Eng), 0, 0)

SetRunning == \E b \in BOOLEAN : StateCall("setRunning", setRunning(Eng, b), 0, 0)

SetPaused == \E b \in BOOLEAN : StateCall("setPaused", setPaused(Eng, b), 0, 0)

SetGameOver == \E b \in BOOLEAN : StateCall("setGameOver", setGameOver(Eng, b), 0, 0)

UpdateScore ==
    \E n \in (-1)..5 :
        StateCall("updateScore", GameState_updateScore(Eng, n), n, totalPoints(Eng, n))

AddLines ==
    \E n \in (-1)..5 :
        StateCall("addLines", addLines(Eng, n), n, levelIncreased(Eng, n))

\* processLineClear(n); `returned` is the pointsAwarded of its result
ProcessLineClear ==
    \E n \in (-1)..5 :
        StateCall("processLineClear", processLineClear(Eng, n), n, totalPoints(Eng, n))

NextState ==
    \/ StateReset
    \/ SetRunning
    \/ SetPaused
    \/ SetGameOver
    \/ UpdateScore
    \/ AddLines
    \/ ProcessLineClear

SpecState == InitState /\ [][NextState]_vars

(***************************************************************************)
(* The drop speed of a GameState: lines are added in steps of any size and *)
(* getDropSpeed() is read at every level that is reached.                  *)
(***************************************************************************)
InitSpeed == Constructed(W, H) /\ game = NewTetrisGame

SpeedSteps == {1, 4, 10, 30}

SpeedAddLines ==
    \E n \in SpeedSteps :
       /\ addLines(Eng, n).lines <= MaxSpeedLines
       /\ SetEng(addLines(Eng, n))
       /\ lastOp' = "addLines"
       /\ prevLife' = Lifecycle
       /\ arg' = n
       /\ returned' = levelIncreased(Eng, n)
       /\ UNCHANGED <<game, width, height, destroyed, before, ticked>>

GetDropSpeed ==
    /\ SetEng(Eng)
    /\ lastOp' = "getDropSpeed"
    /\ prevLife' = Lifecycle
    /\ arg' = 0
    /\ returned' = getDropSpeed(Eng)
    /\ UNCHANGED <<game, width, height, destroyed, before, ticked>>

NextSpeed ==
    \/ SpeedAddLines
    \/ GetDropSpeed

SpecSpeed == InitSpeed /\ [][NextSpeed]_vars

(***************************************************************************)
(* clearLines() of the example game on its own.  The board is as the merge *)
(* loop of placePiece() can leave it: any pattern of filled cells with at  *)
(* most four complete rows, the rows a piece of four cells can complete at *)
(* once.  `before` is the board the call found.                            *)
(***************************************************************************)
ExBoards ==
    { b \in [0..(ExH - 1) -> [0..(ExW - 1) -> {0, 1}]] :
         Cardinality({ y \in 0..(ExH - 1) : \A x \in 0..(ExW - 1) : b[y][x] # 0 }) <= 4 }

InitExClear ==
    /\ width = W
    /\ height = H
    /\ board = EmptyBoard(W, H)
    /\ \E b \in ExBoards, t \in ExTypes :
          /\ game = [startNewGame(NewTetrisGame, t, t, t) EXCEPT !.board = b]
          /\ before = b
    /\ currentPiece = NoPiece
    /\ nextPiece = NoPiece
    /\ pieceX = 0
    /\ pieceY = 0
    /\ score = 0
    /\ level = 1
    /\ lines = 0
    /\ isPaused = FALSE
    /\ isGameOver = FALSE
    /\ isRunning = FALSE
    /\ animationId = NoHandle
    /\ pending = {}
    /\ isEnabled = TRUE
    /\ destroyed = FALSE
    /\ locked = 0
    /\ lastOp = "new"
    /\ prevLife = "Idle"
    /\ cleared = 0
    /\ ticked = FALSE
    /\ arg = 0
    /\ returned = 0

\* this.clearLines(), once on each board
ExClearLines ==
    /\ lastOp = "new"
    /\ game' = TetrisGame_clearLines(game)
    /\ before' = game.board
    /\ lastOp' = "TetrisGame.clearLines"
    /\ UNCHANGED <<width, height, board, score, level, lines, isPaused, isGameOver,
                   isRunning, currentPiece, nextPiece, pieceX, pieceY, animationId,
                   pending, isEnabled, destroyed, locked, prevLife, cleared, ticked,
                   arg, returned>>

NextExClear == ExClearLines

SpecExClear == InitExClear /\ [][NextExClear]_vars

(***************************************************************************)
(* Rotation on its own: a Tetromino of any type in any rotation is turned  *)
(* with rotate(), and a 4x4 matrix is turned with the example game's       *)
(* rotateMatrix().  `before` keeps the piece and the matrix the turning    *)
(* started from, `arg` counts the turns of each since then.  The matrices  *)
(* are the seven shapes of TETROMINOS, every 0/1 matrix with at most       *)
(* MaxFilled filled cells, and one matrix whose sixteen cells all differ.  *)
(***************************************************************************)
AllPieces ==
    { [type |-> getTetrominoTypes[i], rotation |-> r] :
         i \in 1..Len(getTetrominoTypes), r \in 0..3 }

NumberedMatrix == [i \in 1..4 |-> [j \in 1..4 |-> 4 * (i - 1) + j]]

Matrices ==
    { m \in [1..4 -> [1..4 -> {0, 1}]] :
         Cardinality({ c \in (1..4) \X (1..4) : m[c[1]][c[2]] # 0 }) <= MaxFilled }
    \cup { TETROMINOS[getTetrominoTypes[i]].shape : i \in 1..Len(getTetrominoTypes) }
    \cup { NumberedMatrix }

InitRotate ==
    /\ width = W
    /\ height = H
    /\ board = EmptyBoard(W, H)
    /\ currentPiece \in AllPieces
    /\ \E m \in Matrices :
          /\ game = [NewTetrisGame EXCEPT !.currentPiece.shape = m]
          /\ before = [piece |-> currentPiece, matrix |-> m]
    /\ arg = [piece |-> 0, matrix |-> 0]
    /\ returned = 0
    /\ pieceX = 0
    /\ pieceY = 0
    /\ score = 0
    /\ level = 1
    /\ lines = 0
    /\ isPaused = FALSE
    /\ isGameOver = FALSE
    /\ isRunning = FALSE
    /\ nextPiece = NoPiece
    /\ animationId = NoHandle
    /\ pending = {}
    /\ isEnabled = TRUE
    /\ destroyed = FALSE
    /\ locked = 0
    /\ lastOp = "new"
    /\ prevLife = "Idle"
    /\ cleared = 0
    /\ ticked = FALSE

RotateUnchanged ==
    UNCHANGED <<width, height, board, score, level, lines, isPaused, isGameOver,
                isRunning, nextPiece, pieceX, pieceY, animationId, pending,
                isEnabled, destroyed, locked, prevLife, before, cleared, ticked>>

\* piece.rotate(): the rotation index advances and the new shape is returned
RotateTetromino ==
    /\ arg.piece < MaxTurns
    /\ currentPiece' = Tetromino_rotate(currentPiece)
    /\ returned' = getShape(Tetromino_rotate(currentPiece))
    /\ arg' = [arg EXCEPT !.piece = @ + 1]
    /\ lastOp' = "Tetromino.rotate"
    /\ game' = game
    /\ RotateUnchanged

\* matrix = rotateMatrix(matrix)
RotateMatrix ==
    /\ arg.matrix < MaxTurns
    /\ game' = [game EXCEPT !.currentPiece.shape = rotateMatrix(@)]
    /\ returned' = rotateMatrix(game.currentPiece.shape)
    /\ arg' = [arg EXCEPT !.matrix = @ + 1]
    /\ lastOp' = "rotateMatrix"
    /\ currentPiece' = currentPiece
    /\ RotateUnchanged

NextRotate ==
    \/ RotateTetromino
    \/ RotateMatrix

SpecRotate == InitRotate /\ [][NextRotate]_vars

(***************************************************************************)
(* Properties                                                              *)
(***************************************************************************)
\* the rows of b whose every cell is filled
CompleteRows(b) ==
    { r \in 0..(height - 1) : \A col \in 0..(width - 1) : b[r][col] # 0 }

\* how many complete rows of b lie below row r
CompleteBelow(b, r) == Cardinality({ c \in CompleteRows(b) : c > r })

Commands == {"moveLeft", "moveRight", "rotate", "softDrop", "hardDrop"}

\* the current piece overlaps the stack where it was spawned
BlockedSpawn ==
    /\ currentPiece # NoPiece
    /\ pieceX = spawnX(currentPiece)
    /\ pieceY = 0
    /\ ~isValidPosition(board, currentPiece, pieceX, pieceY)

\* C1: a clearLines() call on a board with k >= 1 complete rows lowers the
\* number of filled cells by exactly k * width, and every row that was not
\* complete keeps its contents, moved down by the number of complete rows
\* that were below it.
C1_ClearLinesRemovesCompleteRows ==
    (lastOp = "clearLines" /\ CompleteRows(before) # {}) =>
        /\ getFilledCellCount(board) =
              getFilledCellCount(before) - Cardinality(CompleteRows(before)) * width
        /\ \A r \in (0..(height - 1)) \ CompleteRows(before) :
              board[r + CompleteBelow(before, r)] = before[r]

\* C1, the failing case: two rows were complete, and clearLines() did not
\* lower the filled cells by 2 * width.
C1_TwoCompleteRowsMiscleared ==
    /\ lastOp = "clearLines"
    /\ Cardinality(CompleteRows(before)) = 2
    /\ getFilledCellCount(board) # getFilledCellCount(before) - 2 * width

\* C2: after a clearLines() call no row of the board is complete, however
\* many rows were complete before it.
C2_NoCompleteRowAfterClear ==
    lastOp = "clearLines" => CompleteRows(board) = {}

\* C2, the failing case: clearLines() reported two cleared rows and left a
\* complete row on the board.
C2_CompleteRowSurvives ==
    /\ lastOp = "clearLines"
    /\ cleared = 2
    /\ CompleteRows(board) # {}

\* C3: whatever the interleaving of start, pause, resume, restart, reset,
\* commands and frame callbacks, at most one gameLoop callback is pending.
C3_AtMostOneCallbackPending == Cardinality(pending) <= 1

\* C3, the failing case: restart() during a running game leaves two
\* gameLoop callbacks pending.
C3_RestartDoublesTheLoop ==
    /\ lastOp = "restart"
    /\ prevLife = "Running"
    /\ Cardinality(pending) = 2

\* C4: while the engine is Paused or GameOver, and after destroy() has
\* returned, no gameLoop callback is pending.
C4_NoCallbackWhenStopped ==
    (Lifecycle \in {"Paused", "GameOver", "Destroyed"}) => pending = {}

\* C4, the failing case: a frame callback ran while Paused and scheduled the
\* next one.
C4_PausedLoopReschedules ==
    /\ lastOp = "frame"
    /\ prevLife = "Paused"
    /\ Lifecycle = "Paused"
    /\ animationId \in pending

\* C5: a piece spawned onto a blocked position puts the engine in GameOver,
\* and no frame callback that runs in GameOver changes the board.
C5_BlockedSpawnEndsGame ==
    /\ [](BlockedSpawn => Lifecycle \in {"GameOver", "Destroyed"})
    /\ [][(Lifecycle = "GameOver" /\ lastOp' = "frame") => board' = board]_vars

\* C5, its case: a frame callback has run after the spawn was blocked.
C5_FrameAfterBlockedSpawn ==
    /\ BlockedSpawn
    /\ lastOp = "frame"
    /\ prevLife = "GameOver"
    /\ Lifecycle = "GameOver"

\* C6: (isRunning, isPaused, isGameOver) is always one of Idle (F,F,F),
\* Running (T,F,F), Paused (T,T,F), GameOver (F,F,T).
C6_FlagsAreOneOfFour ==
    <<isRunning, isPaused, isGameOver>> \in
        { <<FALSE, FALSE, FALSE>>, <<TRUE, FALSE, FALSE>>,
          <<TRUE, TRUE, FALSE>>, <<FALSE, FALSE, TRUE>> }

\* C6, its case: restart() was called on a paused game, and the new game runs.
C6_PausedThenRestarted ==
    /\ lastOp = "restart"
    /\ prevLife = "Paused"
    /\ Lifecycle = "Running"

\* C7: after any sequence of GameState.reset(), setRunning(b), setPaused(b)
\* and setGameOver(b) calls, isGameOver implies neither isRunning nor
\* isPaused, and isPaused implies isRunning.
C7_GameStateFlagsConsistent ==
    /\ isGameOver => (~isRunning /\ ~isPaused)
    /\ isPaused => isRunning

\* C7, the failing case: setPaused(true) on a state that is not running.
C7_PausedWhileNotRunning ==
    /\ lastOp = "setPaused"
    /\ isPaused
    /\ ~isRunning

\* C8: in GameOver, pause, resume, the commands, key presses and frame
\* callbacks leave the flags at GameOver and the board, both pieces, the
\* piece position and the score unchanged; isGameOver is only cleared by
\* reset(), start() or restart().
C8_GameOverIsTerminal ==
    [][/\ (isGameOver /\ lastOp' \in ({"pause", "resume", "frame"} \cup Commands \cup Keys))
            => /\ isGameOver' /\ ~isRunning' /\ ~isPaused'
               /\ UNCHANGED <<board, currentPiece, nextPiece, pieceX, pieceY, score>>
       /\ (isGameOver /\ ~isGameOver') => lastOp' \in {"reset", "start", "restart"}]_vars

\* C8, its case: hardDrop() was called in GameOver.
C8_HardDropInGameOver ==
    /\ lastOp = "hardDrop"
    /\ prevLife = "GameOver"
    /\ Lifecycle = "GameOver"

\* C9: moveLeft, moveRight, rotate, softDrop and hardDrop called while the
\* engine is not Running change nothing: board, current piece (type and
\* rotation), its position, next piece, score, lines and level stay as they are.
C9_CommandsIgnoredUnlessRunning ==
    [][(Lifecycle # "Running" /\ lastOp' \in Commands)
          => UNCHANGED <<board, currentPiece, pieceX, pieceY, nextPiece,
                         score, lines, level>>]_vars

\* C9, its case: softDrop() was called while Paused, with a piece in play.
C9_SoftDropWhilePaused ==
    /\ lastOp = "softDrop"
    /\ prevLife = "Paused"
    /\ currentPiece # NoPiece

\* what a pause() or resume() call that is ignored leaves alone
IgnoredCall ==
    UNCHANGED <<board, score, level, lines, isPaused, isGameOver, isRunning,
                currentPiece, nextPiece, pieceX, pieceY, animationId, pending,
                isEnabled>>

\* C10 as stated: pause() acts only in Running and resume() only in Paused;
\* in every other state the call is ignored, pause() while Paused included.
C10_PauseOnlyInRunning ==
    [][/\ (lastOp' = "pause" /\ Lifecycle = "Running") => Lifecycle' = "Paused"
       /\ (lastOp' = "pause" /\ Lifecycle # "Running") => IgnoredCall
       /\ (lastOp' = "resume" /\ Lifecycle = "Paused") => Lifecycle' = "Running"
       /\ (lastOp' = "resume" /\ Lifecycle # "Paused") => IgnoredCall]_vars

\* C10 amended: pause() toggles, Running to Paused and Paused to Running,
\* and is ignored in Idle and GameOver; resume() takes Paused to Running and
\* is ignored in every other state.
C10_PauseToggles ==
    [][/\ (lastOp' = "pause" /\ Lifecycle = "Running") => Lifecycle' = "Paused"
       /\ (lastOp' = "pause" /\ Lifecycle = "Paused") => Lifecycle' = "Running"
       /\ (lastOp' = "pause" /\ Lifecycle \in {"Idle", "GameOver"}) => IgnoredCall
       /\ (lastOp' = "resume" /\ Lifecycle = "Paused") => Lifecycle' = "Running"
       /\ (lastOp' = "resume" /\ Lifecycle # "Paused") => IgnoredCall]_vars

\* C10, its case: pause() was called while Paused and the game runs again.
C10_PauseWhilePausedResumes ==
    /\ lastOp = "pause"
    /\ prevLife = "Paused"
    /\ Lifecycle = "Running"

\* the points a clear of k rows is worth at level l
ClearPoints(k, l) ==
    IF k = 1 THEN 100 * l
    ELSE IF k = 2 THEN 300 * l
    ELSE IF k = 3 THEN 500 * l
    ELSE IF k = 4 THEN 800 * l
    ELSE 0

\* this step locks the current piece at row y, after `bonus` drop points:
\* the piece is placed, clearLines() runs on the result and is counted and
\* scored, the next piece becomes current at its spawn position, and the
\* game is over exactly when that position is blocked
LockSequence(y, bonus) ==
    LET placed == GameBoard_placePiece(board, currentPiece, pieceX, y)
        k == clearLines(placed).count
    IN /\ placed # board
       /\ board' = clearLines(placed).board
       /\ cleared' = k
       /\ lines' = lines + k
       /\ score' = score + bonus + ClearPoints(k, level)
       /\ level' = IF ((lines + k) \div 10) + 1 > level
                   THEN ((lines + k) \div 10) + 1 ELSE level
       /\ locked' = locked + 1
       /\ currentPiece' = nextPiece
       /\ nextPiece' # NoPiece
       /\ pieceX' = spawnX(nextPiece)
       /\ pieceY' = 0
       /\ Lifecycle' = IF isValidPosition(board', currentPiece', pieceX', pieceY')
                       THEN "Running" ELSE "GameOver"

FilledCells(piece) ==
    { rc \in (0..3) \X (0..3) :
        /\ rc[1] < Len(getShape(piece))
        /\ rc[2] < Len(getShape(piece)[rc[1] + 1])
        /\ getShape(piece)[rc[1] + 1][rc[2] + 1] = 1 }

\* every filled cell of the piece at (x, y) lies inside the grid on an empty cell of b
FitsOn(b, piece, x, y) ==
    \A rc \in FilledCells(piece) :
       /\ y + rc[1] \in 0..(height - 1)
       /\ x + rc[2] \in 0..(width - 1)
       /\ b[y + rc[1]][x + rc[2]] = 0

\* the colour ids of the seven piece types
ColourOf(type) ==
    [I |-> 1, O |-> 2, T |-> 3, S |-> 4, Z |-> 5, J |-> 6, L |-> 7][type]

\* C12: isValidPosition(piece, x, y) returns true exactly when every filled
\* cell (r, c) of the piece's shape maps to a cell (y + r, x + c) that is inside
\* the grid and empty, false otherwise, and it leaves the board as it was.
C12_IsValidPositionExact ==
    lastOp = "isValidPosition" =>
       /\ returned = FitsOn(before, currentPiece, pieceX, pieceY)
       /\ board = before

\* C12 witness: a piece with a bend was accepted on a board that holds filled cells
C12_AcceptedBesideFilledCells ==
    /\ lastOp = "isValidPosition"
    /\ returned = TRUE
    /\ currentPiece.type = "S"
    /\ \E row \in 0..(height - 1), col \in 0..(width - 1) : board[row][col] # 0

\* C13: when isValidPosition is false for the piece and position, placePiece
\* returns false and leaves every cell of the board unchanged.
C13_RejectedPlaceLeavesBoard ==
    (lastOp = "placePiece" /\ ~isValidPosition(before, currentPiece, pieceX, pieceY)) =>
       /\ returned = FALSE
       /\ board = before

\* C13 witness: a placement inside the grid was refused because a cell was taken
C13_RefusedOnOverlap ==
    /\ lastOp = "placePiece"
    /\ returned = FALSE
    /\ \A rc \in FilledCells(currentPiece) :
          pieceY + rc[1] \in 0..(height - 1) /\ pieceX + rc[2] \in 0..(width - 1)
    /\ \E rc \in FilledCells(currentPiece) : before[pieceY + rc[1]][pieceX + rc[2]] # 0

\* C14: a successful placePiece returns true, sets exactly the cells under the
\* filled cells of the shape to the colour id of the piece's type
\* (I=1, O=2, T=3, S=4, Z=5, J=6, L=7) and leaves every other cell unchanged.
C14_PlaceWritesColourId ==
    (lastOp = "placePiece" /\ isValidPosition(before, currentPiece, pieceX, pieceY)) =>
       /\ returned = TRUE
       /\ \A row \in 0..(height - 1), col \in 0..(width - 1) :
             board[row][col] =
                IF <<row - pieceY, col - pieceX>> \in FilledCells(currentPiece)
                THEN ColourOf(currentPiece.type)
                ELSE before[row][col]

\* C14 witness: an L piece was written as 7 next to cells that kept their value
C14_PlacedLBesideOldCells ==
    /\ lastOp = "placePiece"
    /\ returned = TRUE
    /\ currentPiece.type = "L"
    /\ \E row \in 0..(height - 1), col \in 0..(width - 1) : board[row][col] = 7
    /\ \E row \in 0..(height - 1), col \in 0..(width - 1) :
          board[row][col] = 1 /\ before[row][col] = 1

\* C15: updateScore(n) at level L adds {100, 300, 500, 800}[n-1] x L to the
\* score and returns that amount, for n in 1..4; updateScore(0) adds nothing.
C15_UpdateScoreTable ==
    [][lastOp' = "updateScore" =>
          /\ arg' \in 1..4 =>
                /\ score' = score + <<100, 300, 500, 800>>[arg'] * level
                /\ returned' = <<100, 300, 500, 800>>[arg'] * level
          /\ arg' = 0 => score' = score]_vars

\* C15 witness: a four-line clear at level 2 was paid 1600 points
C15_TetrisAtLevelTwo ==
    /\ lastOp = "updateScore"
    /\ arg = 4
    /\ level = 2
    /\ returned = 1600
    /\ score = 1600

\* C16: the level always equals floor(lines / 10) + 1; one addLines(n) call with
\* n in 0..4 raises the level by at most 1 and returns true exactly when it rose.
C16_LevelFollowsLines ==
    /\ [](level = (lines \div 10) + 1)
    /\ [][(lastOp' = "addLines" /\ arg' \in 0..4) =>
             /\ lines' = lines + arg'
             /\ level' \in {level, level + 1}
             /\ returned' = (level' > level)]_vars

\* C16 witness: four lines were added to eight, and the level rose once, to 2
C16_EightPlusFour ==
    /\ lastOp = "addLines"
    /\ arg = 4
    /\ lines = 12
    /\ level = 2
    /\ returned = TRUE

\* C17: in every state reached by playing, the number clearLines() returned
\* at the last lock is between 0 and 4.
C17_ClearCountAtMostFour == cleared \in 0..4

\* C17 witness: the eleventh standing I piece completed four rows on top of the
\* two complete rows the four-row clear before it had left, and clearLines()
\* returned 6; updateScore(6) paid nothing, the 14 points are for the drop
C17_SixRowsClearedAtOnce ==
    /\ lastOp = "hardDrop"
    /\ locked = 11
    /\ cleared = 6
    /\ lines = 10
    /\ score = 922

\* C18 as stated: updateScore(n) with n > 4 does not reject the input and adds
\* 100 x level to the score.
C18_InvalidCountScoresAsSingle ==
    [][(lastOp' = "updateScore" /\ arg' > 4) => score' = score + 100 * level]_vars

\* C18 amended: updateScore(n) with n > 4 rejects the input: it returns 0 and
\* leaves the score as it was.
C18_InvalidCountRejected ==
    [][(lastOp' = "updateScore" /\ arg' > 4) =>
          /\ score' = score
          /\ returned' = 0]_vars

\* C18 witness: updateScore(5) was called at level 2 on a non-zero score and returned 0
C18_FiveLinesReturnedZero ==
    /\ lastOp = "updateScore"
    /\ arg = 5
    /\ level = 2
    /\ score > 0
    /\ returned = 0

\* the horizontal offsets rotate() is said to try, in order
RotateOffsets == <<0, -1, 1, -2, 2>>

C21_SoftDropOneRowOnePoint ==
    [][(Lifecycle = "Running" /\ lastOp' = "softDrop") =>
          IF FitsOn(board, currentPiece, pieceX, pieceY + 1)
          THEN /\ pieceY' = pieceY + 1
               /\ score' = score + 1
               /\ Lifecycle' = "Running"
               /\ UNCHANGED <<board, currentPiece, nextPiece, pieceX,
                              lines, level, locked>>
          ELSE LockSequence(pieceY, 0)]_vars

\* C21 witness: the first piece was soft-dropped three rows for 3 points, and
\* the fourth softDrop() locked it on the bottom row and cleared the line
C21_SoftDroppedToTheLock ==
    /\ lastOp = "softDrop"
    /\ prevLife = "Running"
    /\ locked = 1
    /\ cleared = 1
    /\ score = 103

\* C22: start() from Idle or GameOver, and restart() from any lifecycle state,
\* leave an empty board, score 0, lines 0, level 1, an active piece in rotation
\* 0 at x = floor(W/2) - floor(pieceWidth/2), y = 0, a next piece, and the
\* lifecycle state Running.
C22_StartGivesFreshRunningGame ==
    [][(\/ lastOp' = "start" /\ Lifecycle \in {"Idle", "GameOver"}
        \/ lastOp' = "restart" /\ Lifecycle \in {"Idle", "Running", "Paused", "GameOver"}) =>
          /\ \A row \in 0..(height - 1), col \in 0..(width - 1) : board'[row][col] = 0
          /\ score' = 0
          /\ lines' = 0
          /\ level' = 1
          /\ currentPiece' # NoPiece
          /\ currentPiece'.rotation = 0
          /\ pieceX' = (width \div 2) - (Len(getShape(currentPiece')[1]) \div 2)
          /\ pieceY' = 0
          /\ nextPiece' # NoPiece
          /\ Lifecycle' = "Running"]_vars

\* C22 witness: start() was called on a game that was over, and a new game runs
C22_StartedAgainAfterGameOver ==
    /\ lastOp = "start"
    /\ prevLife = "GameOver"
    /\ Lifecycle = "Running"
    /\ score = 0
    /\ currentPiece # NoPiece

\* C23: on every spawn the piece shown as next becomes the active piece (same
\* type, rotation 0) and a next piece is generated; between spawns and resets
\* the next piece never changes and the active piece's type never changes.
C23_NextBecomesActive ==
    [][IF locked' = locked + 1
       THEN /\ currentPiece' = [type |-> nextPiece.type, rotation |-> 0]
            /\ nextPiece' # NoPiece
            /\ nextPiece'.rotation = 0
       ELSE IF lastOp' \in {"start", "restart", "reset", "destroy"}
       THEN TRUE
       ELSE /\ nextPiece' = nextPiece
            /\ currentPiece'.type = currentPiece.type]_vars

\* C23 witness: an I piece was stood upright and hard-dropped down the first
\* column; the T piece of the preview is now active, unrotated, and an O is next
C23_PreviewPieceSpawned ==
    /\ lastOp = "hardDrop"
    /\ locked = 1
    /\ board[0][0] = 1
    /\ currentPiece = [type |-> "T", rotation |-> 0]
    /\ nextPiece = [type |-> "O", rotation |-> 0]
    /\ Lifecycle = "Running"

\* C24: in every reachable engine state the board has exactly H rows of
\* exactly W cells, and every cell value is an integer in 0..7.
C24_BoardIsHByWOfColourIds ==
    /\ DOMAIN board = 0..(height - 1)
    /\ \A row \in 0..(height - 1) :
          /\ DOMAIN board[row] = 0..(width - 1)
          /\ \A col \in 0..(width - 1) : board[row][col] \in 0..7

\* C24 witness: two pieces of different types are locked, an O and a T, and
\* the board holds both colour ids
C24_TwoColoursOnTheBoard ==
    /\ lastOp = "hardDrop"
    /\ locked = 2
    /\ \E row \in 0..(height - 1), col \in 0..(width - 1) : board[row][col] = 2
    /\ \E row \in 0..(height - 1), col \in 0..(width - 1) : board[row][col] = 3

\* C25: pressing Space toggles pause: in Running it pauses the game, in
\* Paused it resumes it, although every other key is without effect while
\* paused; in Idle and GameOver it has no effect.
C25_SpaceTogglesPause ==
    [][/\ lastOp' = " " =>
            CASE Lifecycle = "Running" -> Lifecycle' = "Paused"
              [] Lifecycle = "Paused" -> Lifecycle' = "Running"
              [] OTHER -> /\ Lifecycle' = Lifecycle
                          /\ UNCHANGED <<board, currentPiece, nextPiece, pieceX, pieceY,
                                         score, lines, level, pending, isEnabled>>
       /\ (lastOp' \in {"ArrowLeft", "ArrowRight", "ArrowUp", "ArrowDown"}
              /\ Lifecycle = "Paused") =>
            /\ Lifecycle' = "Paused"
            /\ UNCHANGED <<board, currentPiece, pieceX, pieceY, score>>]_vars

\* C25 witness: Space was pressed while the game was paused and input was
\* disabled, and the game runs again with input enabled
C25_SpaceResumed ==
    /\ lastOp = " "
    /\ prevLife = "Paused"
    /\ Lifecycle = "Running"
    /\ isEnabled
    /\ currentPiece # NoPiece

\* C26: in the example game the P key both pauses and resumes: pressed while
\* the game is running it pauses the game, and pressed while the game is
\* paused it resumes the game.
C26_PKeyPausesAndResumes ==
    [][lastOp' = "KeyP" =>
          /\ ExLifecycle = "Running" => ExLifecycle' = "Paused"
          /\ ExLifecycle = "Paused" => ExLifecycle' = "Running"]_vars

\* C26 witness: P was pressed while the example game was paused, and the
\* game is still paused
C26_PKeyLeftGamePaused ==
    /\ lastOp = "KeyP"
    /\ prevLife = "Paused"
    /\ ExLifecycle = "Paused"
    /\ game.currentPiece # NoExPiece

\* C27: from Idle, pressing any arrow key starts the game: the engine
\* becomes Running with a falling piece.
C27_ArrowKeyStartsTheGame ==
    [][(Lifecycle = "Idle"
          /\ lastOp' \in {"ArrowLeft", "ArrowRight", "ArrowUp", "ArrowDown"}) =>
          /\ Lifecycle' = "Running"
          /\ currentPiece' # NoPiece]_vars

\* C27 witness: an arrow key was pressed on the constructed engine, which is
\* still idle and has no piece
C27_ArrowKeyLeftEngineIdle ==
    /\ lastOp = "ArrowLeft"
    /\ prevLife = "Idle"
    /\ Lifecycle = "Idle"
    /\ currentPiece = NoPiece
    /\ pending = {}

\* C28: findCompletedLines() returns exactly the indices of the rows whose W
\* cells are all non-empty, ordered bottom-to-top; when exactly one row r is
\* complete it returns [r], and clearLines() returns 1 and removes that row:
\* every row above r moves down by one, row 0 becomes empty, and the rows
\* below r are unchanged.
C28_SingleCompleteRowCleared ==
    /\ LET found == findCompletedLines(board)
       IN /\ { found[i] : i \in 1..Len(found) } = CompleteRows(board)
          /\ \A i \in 1..(Len(found) - 1) : found[i] > found[i + 1]
    /\ (lastOp = "clearLines" /\ Cardinality(CompleteRows(before)) = 1) =>
          LET r == CHOOSE c \in CompleteRows(before) : TRUE
          IN /\ findCompletedLines(before) = <<r>>
             /\ cleared = 1
             /\ \A col \in 0..(width - 1) : board[0][col] = 0
             /\ \A row \in 1..r : board[row] = before[row - 1]
             /\ \A row \in (r + 1)..(height - 1) : board[row] = before[row]

\* C28 witness: the one complete row lay between two rows that held filled
\* cells, and clearLines() returned 1
C28_OneRowClearedBetweenOthers ==
    /\ lastOp = "clearLines"
    /\ cleared = 1
    /\ \E r \in 1..(height - 2) :
          /\ CompleteRows(before) = {r}
          /\ \E col \in 0..(width - 1) : before[r - 1][col] # 0
          /\ \E col \in 0..(width - 1) : before[r + 1][col] # 0

\* C29: four successive clockwise rotations restore the original rotation
\* index and the original shape, for each of the 7 piece types and each
\* starting rotation (Tetromino.rotate); and rotateMatrix of the example
\* game applied four times to a 4x4 matrix returns the original matrix.
C29_FourTurnsRestore ==
    /\ arg.piece = 4 =>
          /\ currentPiece.rotation = before.piece.rotation
          /\ currentPiece.type = before.piece.type
          /\ getShape(currentPiece) = getShape(before.piece)
    /\ arg.matrix = 4 => game.currentPiece.shape = before.matrix

\* C29 witness: a T piece that started in rotation 1 and the matrix of
\* sixteen different cells have both been turned four times, and a single
\* turn of either is not the identity
C29_TurnedFourTimes ==
    /\ arg.piece = 4
    /\ arg.matrix = 4
    /\ before.piece = [type |-> "T", rotation |-> 1]
    /\ before.matrix = NumberedMatrix
    /\ getShape(Tetromino_rotate(currentPiece)) # getShape(currentPiece)
    /\ rotateMatrix(before.matrix) # before.matrix

\* the 90-degree clockwise rotation of a matrix of h rows and w columns: its
\* w rows of h cells are the columns of m read from the bottom row upwards
Clockwise(m) ==
    [i \in 1..Len(m[1]) |-> [j \in 1..Len(m) |-> m[Len(m) - j + 1][i]]]

\* C30: for each of the 7 piece types and each rotation index r the shape at
\* index (r + 1) mod 4 of the table is the 90-degree clockwise matrix rotation
\* of the shape at index r, so every Tetromino.rotate() turns the shape of
\* the piece by 90 degrees clockwise.
C30_RotateIsClockwiseQuarterTurn ==
    [][ /\ \A p \in AllPieces :
             TETROMINO_TYPES[p.type][((p.rotation + 1) % 4) + 1] = Clockwise(getShape(p))
        /\ lastOp' = "Tetromino.rotate" =>
             /\ getShape(currentPiece') = Clockwise(getShape(currentPiece))
             /\ returned' = Clockwise(getShape(currentPiece)) ]_vars

\* C30 witness: rotate() has turned an L piece from rotation 3 back to
\* rotation 0, a 3x2 shape into a 2x3 shape
C30_LTurnedFromThreeToZero ==
    /\ lastOp = "Tetromino.rotate"
    /\ currentPiece = [type |-> "L", rotation |-> 0]
    /\ arg.piece = 1
    /\ before.piece.rotation = 3
    /\ returned = <<<<0, 0, 1>>, <<1, 1, 1>>>>

\* C31: for all 7 piece types, each of the 4 rotation states has the same
\* number of filled cells, 4, so the filled-cell count of a piece is
\* unchanged by any sequence of rotations.
C31_FourFilledCellsInEveryRotation ==
    /\ \A p \in AllPieces : Cardinality(FilledCells(p)) = 4
    /\ Cardinality(FilledCells(currentPiece)) = 4
    /\ Cardinality(FilledCells(currentPiece)) = Cardinality(FilledCells(before.piece))

\* C31 witness: a J piece has been rotated three times, from the 2x3 shape of
\* rotation 0 to the 3x2 shape of rotation 3
C31_JTurnedThreeTimes ==
    /\ lastOp = "Tetromino.rotate"
    /\ arg.piece = 3
    /\ before.piece = [type |-> "J", rotation |-> 0]
    /\ currentPiece = [type |-> "J", rotation |-> 3]
    /\ getShape(currentPiece) # getShape(before.piece)

\* the decimal fraction of a natural number below 10000
Whole(n) ==
    [mant |-> IF n >= 1000 THEN <<n % 10, (n \div 10) % 10, (n \div 100) % 10, n \div 1000>>
              ELSE IF n >= 100 THEN <<n % 10, (n \div 10) % 10, n \div 100>>
              ELSE IF n >= 10 THEN <<n % 10, n \div 10>>
              ELSE IF n >= 1 THEN <<n>> ELSE <<>>,
     scale |-> 0]

\* two decimal fractions of the same value
SameValue(x, y) == atLeast(x, y) /\ atLeast(y, x)

\* x = (9 / 10) * y
NineTenthsOf(x, y) ==
    SameValue([mant |-> timesDigit(x.mant, 1, 0), scale |-> x.scale],
              [mant |-> timesDigit(y.mant, 9, 0), scale |-> y.scale + 1])

\* the drop speed at level l, every other field as in the present state
SpeedAt(l) == getDropSpeed([Eng EXCEPT !.level = l])

\* C32: getDropSpeed() equals max(50, 1000 x 0.9^(level - 1)) milliseconds:
\* it is 1000 at level 1, never below 50, never larger at a higher level
\* than at a lower one; from one level to the next it falls to nine tenths
\* until that would go below 50, and is 50 from then on.
C32_DropSpeedFormula ==
    lastOp = "getDropSpeed" =>
       /\ returned = SpeedAt(level)
       /\ SameValue(SpeedAt(1), Whole(1000))
       /\ atLeast(returned, Whole(50))
       /\ \A l \in 1..level : atLeast(SpeedAt(l), returned)
       /\ level > 1 =>
             LET ninth == [mant |-> timesDigit(SpeedAt(level - 1).mant, 9, 0),
                           scale |-> SpeedAt(level - 1).scale + 1]
             IN IF atLeast(ninth, Whole(50))
                THEN NineTenthsOf(returned, SpeedAt(level - 1))
                ELSE SameValue(returned, Whole(50))

\* C32 witness: getDropSpeed() returned 50 at level 30, the first level at
\* which 1000 x 0.9^(level - 1) is below 50, after returning more at level 29
C32_SpeedLimitReachedAtLevelThirty ==
    /\ lastOp = "getDropSpeed"
    /\ level = 30
    /\ SameValue(returned, Whole(50))
    /\ ~atLeast(Whole(50), SpeedAt(29))
    /\ ~atLeast(calculatedSpeed(Eng), Whole(50))

\* C33: whenever the engine is Running or Paused, the active piece at
\* (pieceX, pieceY) in its current rotation is at a valid position, all four
\* cells inside the grid and on empty cells, after any sequence of moves,
\* rotations, drops and gravity ticks; consequently the placement step of a
\* lock never fails: a running game only ends with a lock that was carried
\* out and a spawn that found no room.
C33_ActivePieceAlwaysValid ==
    [][ /\ Lifecycle' \in {"Running", "Paused"} =>
             /\ currentPiece' # NoPiece
             /\ Cardinality(FilledCells(currentPiece')) = 4
             /\ FitsOn(board', currentPiece', pieceX', pieceY')
        /\ (Lifecycle = "Running" /\ Lifecycle' = "GameOver") => locked' = locked + 1
      ]_vars

\* C33 witness: a gravity tick has moved a rotated piece down beside the
\* cells of a piece locked earlier, and the game is still running
C33_RotatedPieceFallingPastLockedCells ==
    /\ Lifecycle = "Running"
    /\ lastOp = "frame"
    /\ ticked
    /\ locked >= 1
    /\ currentPiece.rotation # 0
    /\ pieceY >= 1
    /\ \E rc \in FilledCells(currentPiece) :
          /\ pieceX + rc[2] + 1 <= width - 1
          /\ board[pieceY + rc[1]][pieceX + rc[2] + 1] # 0

\* C34: in the example game at most one requestAnimationFrame gameLoop chain
\* is alive at any time, under any interleaving of startNewGame(),
\* togglePause() and frame callbacks: never more than one callback is pending.
C34_AtMostOneGameLoopChain == game.loops <= 1

\* C34 witness: a pause followed by a resume before the pending frame fired
\* has left two gameLoop callbacks pending in a running game
C34_ResumeStartedSecondChain ==
    /\ lastOp = "pauseBtn"
    /\ prevLife = "Paused"
    /\ ExLifecycle = "Running"
    /\ game.loops = 2

\* what the player sees of the game in progress
PlayField == <<board, currentPiece, pieceX, pieceY, nextPiece, score, lines, level>>

\* C35: while the engine is Paused, animation-frame callbacks and player
\* commands, called directly or through their keys, change neither the
\* board, the active piece's position or rotation, the next piece, the score,
\* the line count nor the level, and leave the engine Paused; the resume
\* continues from exactly that state.
C35_PausedGameIsFrozen ==
    [][ /\ (Lifecycle = "Paused" /\ lastOp' \in Commands \cup {"frame"} \cup
                 {"ArrowLeft", "ArrowRight", "ArrowUp", "ArrowDown"}) =>
             /\ PlayField' = PlayField
             /\ Lifecycle' = "Paused"
        /\ (Lifecycle = "Paused" /\ lastOp' \in {"pause", "resume", " ", "Escape"}) =>
             /\ PlayField' = PlayField
             /\ Lifecycle' = "Running"
      ]_vars

\* C35 witness: a frame callback fired in a paused game whose piece hangs in
\* mid-air above the cells locked earlier, with free room below it
C35_FrameFiredInPausedGame ==
    /\ lastOp = "frame"
    /\ prevLife = "Paused"
    /\ Lifecycle = "Paused"
    /\ locked >= 1
    /\ score > 0
    /\ pieceY >= 1
    /\ FitsOn(board, currentPiece, pieceX, pieceY + 1)

\* a gravity tick: a frame callback that reached its dropPiece() call
GravityTick == lastOp' = "frame" /\ ticked'

\* C36: while the engine stays Running and gravity ticks keep firing, every
\* active piece is locked after at most H gravity steps, whatever the player
\* interleaves: pieceY stays within 0..H-1, no player command decreases it,
\* every gravity tick either moves the piece one row down or locks it, and
\* when gravity ticks fire again and again the game does not remain Running
\* forever with the same piece.
C36_EveryPieceIsLockedInTheEnd ==
    /\ [][ Lifecycle = "Running" =>
             /\ pieceY \in 0..(height - 1)
             /\ (lastOp' \in Commands \cup Keys /\ locked' = locked) => pieceY' >= pieceY
             /\ GravityTick =>
                    \/ locked' = locked + 1
                    \/ locked' = locked /\ pieceY' = pieceY + 1 /\ Lifecycle' = "Running"
          ]_vars
    /\ []<><<GravityTick>>_vars =>
          \/ []<>(Lifecycle # "Running")
          \/ []<><<locked' = locked + 1 \/ lastOp' = "restart">>_vars

\* C36 witness: a piece that fell by gravity ticks alone from the top to the
\* floor was locked by the last tick, filling and clearing the bottom row
C36_LockedByGravityAlone ==
    /\ lastOp = "frame"
    /\ ticked
    /\ prevLife = "Running"
    /\ locked = 1
    /\ cleared = 1
    /\ score = 100

\* C37: processLineClear(n) keeps score and line count consistent: every call
\* that adds n to the line total also adds the table score for n, and a value
\* of n outside 1..4, which updateScore rejects, changes neither score, lines
\* nor level.
C37_ProcessLineClearConsistent ==
    [][lastOp' = "processLineClear" =>
          IF arg' \in 1..4
          THEN /\ lines' = lines + arg'
               /\ score' = score + ClearPoints(arg', level)
          ELSE /\ score' = score
               /\ lines' = lines
               /\ level' = level]_vars

\* C37 witness: processLineClear(5) on a fresh state awarded no points and
\* left the score at 0, yet the line total is 5
C37_FiveLinesCountedWithoutScore ==
    /\ lastOp = "processLineClear"
    /\ arg = 5
    /\ returned = 0
    /\ score = 0
    /\ lines = 5

\* C38: when a line clear raises the level, the points for that clear are
\* computed with the level in force before the clear: processLineClear(n),
\* n in 1..4, adds {100,300,500,800}[n-1] x (level before the call) to the
\* score and only then adds the lines and recomputes the level.
C38_PointsAtLevelBeforeTheClear ==
    [][(lastOp' = "processLineClear" /\ arg' \in 1..4) =>
          /\ score' = score + ClearPoints(arg', level)
          /\ lines' = lines + arg'
          /\ level' = IF (lines' \div 10) + 1 > level THEN (lines' \div 10) + 1 ELSE level]_vars

\* C38 witness: a processLineClear(4) that took the line total from 8 to 12
\* and the level from 1 to 2 has awarded 800 points, not 1600
C38_TetrisAcrossLevelBoundary ==
    /\ lastOp = "processLineClear"
    /\ arg = 4
    /\ lines = 12
    /\ level = 2
    /\ returned = 800
    /\ score >= 800

\* the complete rows of a board of the example game
ExCompleteRows(b) == { y \in 0..(ExH - 1) : \A x \in 0..(ExW - 1) : b[y][x] # 0 }

\* C39: TetrisGame.clearLines() removes every complete row in one call, for
\* any number of simultaneously complete rows: afterwards no row is complete,
\* the board still has BOARD_HEIGHT rows of BOARD_WIDTH cells, the remaining
\* rows keep their contents and relative order below as many empty rows as
\* were removed, and the score/lines update receives exactly the number of
\* rows removed.
C39_ExampleClearLinesRemovesAll ==
    lastOp = "TetrisGame.clearLines" =>
       LET k == Cardinality(ExCompleteRows(before))
       IN /\ ExCompleteRows(game.board) = {}
          /\ DOMAIN game.board = 0..(ExH - 1)
          /\ \A y \in 0..(ExH - 1) : DOMAIN game.board[y] = 0..(ExW - 1)
          /\ \A y \in 0..(k - 1) : \A x \in 0..(ExW - 1) : game.board[y][x] = 0
          /\ \A y \in (0..(ExH - 1)) \ ExCompleteRows(before) :
                game.board[y + Cardinality({ c \in ExCompleteRows(before) : c > y })] = before[y]
          /\ game.lines = k
          /\ game.score = IF k = 0 THEN 0 ELSE <<100, 300, 500, 800>>[k]

\* C39 witness: three rows were complete at once, two of them adjacent and one
\* below a row with a gap, and clearLines() counted three lines
C39_ThreeRowsClearedAroundAGap ==
    /\ lastOp = "TetrisGame.clearLines"
    /\ ExCompleteRows(before) = {0, 1, 3}
    /\ \E x \in 0..(ExW - 1) : before[2][x] # 0
    /\ game.board[3] = before[2]
    /\ game.lines = 3

====
